---- MODULE Spec2Model ----
(***************************************************************************)
(* Value boxes of src/lib/util/value.c: the network codec, the comparison  *)
(* engine and the cast matrix, as operators over records, driven by small  *)
(* state machines that draw their inputs in Init and apply the operations. *)
(*                                                                         *)
(* Representation.  A box is a record.  The scalar members of the datum    *)
(* union are kept as its memory image `bytes` (host byte order, so that    *)
(* htons/htonl/htonll and memcpy between members of different width act as *)
(* they do in C); wide integers are byte sequences, never TLA+ integers.   *)
(* The fr_ipaddr_t member is the record `ip`, whose `addr` is the 16 byte  *)
(* union of v4 and v6 (v4 is its first four bytes) and whose `pad` is the  *)
(* three bytes between prefix and scope_id.  A variable length             *)
(* payload is `length` and the bytes `data` of the talloc buffer.          *)
(* fr_value_box_offsets is offsetof(fr_value_box_t, datum.X); datum is the *)
(* first member of the box, so every offset is 0 and is left out.          *)
(***************************************************************************)
EXTENDS Integers, Sequences, FiniteSets, TLC

VARIABLES
    pc,         \* position of the caller driving the operations
    le,         \* TRUE when the host is little endian
    a,          \* first operand: value / src / a
    b,          \* second operand of a comparison: b
    dst,        \* the destination box: dst
    op,         \* the operator (FR_TOKEN) or the type argument (type, dst_type)
    wire,       \* the byte buffer: dst of to_network, src of from_network
    dst_len,    \* dst_len of fr_value_box_to_network
    need,       \* *need of fr_value_box_to_network (-1: not written)
    rc,         \* the last return value
    rc2,        \* the return value of the swapped comparison
    mem,        \* the talloc buffers and the buffer each box points to
    text        \* the text buffer: out of value_str_unescape and of the printing

vars == <<pc, le, a, b, dst, op, wire, dst_len, need, rc, rc2, mem, text>>

\* Bounds of the model
MaxLen == 3         \* longest generated string / octets payload
MaxDstLen == 19     \* largest output buffer and longest wire input
MaxBufs == 5        \* talloc buffers a run can allocate

\* A talloc chunk: unused (never allocated), live or freed; its parent context
\* and the number of references taken with talloc_reference
NoBuf == [state |-> "unused", bytes |-> <<>>, parent |-> "NULL", refs |-> 0]

\* The memory of a run that allocates nothing: no chunk, every pointer NULL (0)
NoMem == [buf |-> [i \in 1..MaxBufs |-> NoBuf], ptr |-> [a |-> 0, b |-> 0, dst |-> 0],
          fault |-> FALSE]

\* (size_t)~0 of the size table: larger than every length of the model
SIZE_MAX == 2147483647

----------------------------------------------------------------------------
\* Bytes and memory

Zeros(n) == [i \in 1..n |-> 0]

Reverse(s) == [i \in 1..Len(s) |-> s[Len(s) + 1 - i]]

\* memcpy(d + off, s, n)
memcpy(d, off, s, n) ==
    [i \in 1..Len(d) |-> IF i > off /\ i <= off + n THEN s[i - off] ELSE d[i]]

\* The byte swaps: the identity on a big endian host
htons(x) == IF le THEN Reverse(x) ELSE x
htonl(x) == IF le THEN Reverse(x) ELSE x
htonll(x) == IF le THEN Reverse(x) ELSE x

\* memcmp as -1, 0, +1
RECURSIVE memcmp(_, _, _)
memcmp(x, y, n) ==
    IF n = 0 THEN 0
    ELSE IF x[1] < y[1] THEN -1
    ELSE IF x[1] > y[1] THEN 1
    ELSE memcmp(Tail(x), Tail(y), n - 1)

----------------------------------------------------------------------------
\* Type metadata

VariableTypes == {"FR_TYPE_STRING", "FR_TYPE_OCTETS"}

IpTypes == {"FR_TYPE_IPV4_ADDR", "FR_TYPE_IPV4_PREFIX", "FR_TYPE_IPV6_ADDR", "FR_TYPE_IPV6_PREFIX"}

\* fr_value_box_network_sizes[type] as <<min, max>>; a type the table does not
\* list has the zero entry of static storage
fr_value_box_network_sizes(type) ==
    CASE type = "FR_TYPE_INVALID" -> <<SIZE_MAX, 0>>
      [] type \in VariableTypes -> <<0, SIZE_MAX>>
      [] type = "FR_TYPE_IPV4_ADDR" -> <<4, 4>>
      [] type = "FR_TYPE_IPV4_PREFIX" -> <<6, 6>>
      [] type = "FR_TYPE_IPV6_ADDR" -> <<16, 16>>
      [] type = "FR_TYPE_IPV6_PREFIX" -> <<18, 18>>
      [] type = "FR_TYPE_IFID" -> <<8, 8>>
      [] type = "FR_TYPE_ETHERNET" -> <<6, 6>>
      [] type \in {"FR_TYPE_BOOL", "FR_TYPE_UINT8", "FR_TYPE_INT8"} -> <<1, 1>>
      [] type \in {"FR_TYPE_UINT16", "FR_TYPE_INT16"} -> <<2, 2>>
      [] type \in {"FR_TYPE_UINT32", "FR_TYPE_INT32", "FR_TYPE_FLOAT32", "FR_TYPE_DATE"} -> <<4, 4>>
      [] type \in {"FR_TYPE_UINT64", "FR_TYPE_INT64", "FR_TYPE_FLOAT64", "FR_TYPE_DATE_MILLISECONDS",
                   "FR_TYPE_DATE_MICROSECONDS", "FR_TYPE_DATE_NANOSECONDS"} -> <<8, 8>>
      [] type = "FR_TYPE_ABINARY" -> <<32, SIZE_MAX>>
      [] OTHER -> <<0, 0>>

\* fr_value_box_field_sizes[type]: the width of the member of the datum union
\* (pointers and size_t are 8 bytes, struct timeval 16, fr_ipaddr_t 28)
fr_value_box_field_sizes(type) ==
    CASE type \in VariableTypes -> 8
      [] type \in IpTypes -> 28
      [] type = "FR_TYPE_IFID" -> 8
      [] type = "FR_TYPE_ETHERNET" -> 6
      [] type \in {"FR_TYPE_BOOL", "FR_TYPE_UINT8", "FR_TYPE_INT8"} -> 1
      [] type \in {"FR_TYPE_UINT16", "FR_TYPE_INT16"} -> 2
      [] type \in {"FR_TYPE_UINT32", "FR_TYPE_INT32", "FR_TYPE_FLOAT32", "FR_TYPE_DATE"} -> 4
      [] type \in {"FR_TYPE_UINT64", "FR_TYPE_INT64", "FR_TYPE_FLOAT64", "FR_TYPE_DATE_MILLISECONDS",
                   "FR_TYPE_DATE_MICROSECONDS", "FR_TYPE_DATE_NANOSECONDS", "FR_TYPE_SIZE"} -> 8
      [] type = "FR_TYPE_TIMEVAL" -> 16
      [] type = "FR_TYPE_ABINARY" -> 32
      [] OTHER -> 0

----------------------------------------------------------------------------
\* Lifecycle

\* talloc_zero, then the type
fr_value_box_alloc(type) ==
    [type |-> type, tainted |-> FALSE, enumv |-> "NULL", next |-> "NULL",
     bytes |-> Zeros(32),
     ip |-> [af |-> "AF_UNSPEC", addr |-> Zeros(16), prefix |-> 0, pad |-> Zeros(3),
             scope_id |-> 0],
     length |-> 0, data |-> <<>>]

fr_value_box_copy_meta(d, s) ==
    [d EXCEPT !.length = IF s.type \in VariableTypes THEN s.length ELSE @,
              !.enumv = s.enumv,
              !.type = s.type,
              !.tainted = s.tainted]

\* fr_value_box_copy as [rc, dst]; alloc_ok is whether talloc returns a buffer
fr_value_box_copy(d, s, alloc_ok) ==
    IF s.type = "FR_TYPE_INVALID" THEN [rc |-> -1, dst |-> d]
    ELSE IF s.type = "FR_TYPE_STRING" THEN
        IF ~alloc_ok THEN [rc |-> -1, dst |-> d]
        ELSE [rc |-> 0, dst |-> fr_value_box_copy_meta([d EXCEPT !.data = s.data], s)]
    ELSE IF s.type = "FR_TYPE_OCTETS" THEN
        IF s.length > 0 /\ ~alloc_ok THEN [rc |-> -1, dst |-> d]
        ELSE [rc |-> 0, dst |-> fr_value_box_copy_meta(
                  [d EXCEPT !.data = IF s.length > 0 THEN s.data ELSE <<>>], s)]
    ELSE IF s.type \in IpTypes THEN
        [rc |-> 0, dst |-> fr_value_box_copy_meta([d EXCEPT !.ip = s.ip], s)]
    ELSE
        [rc |-> 0, dst |-> fr_value_box_copy_meta(
            [d EXCEPT !.bytes = memcpy(@, 0, s.bytes, fr_value_box_field_sizes(s.type))], s)]

\* The typed constructors fr_value_box_from_network uses, as [rc, dst]
fr_value_box_bstrndup(d, src, len, tainted, alloc_ok) ==
    IF ~alloc_ok THEN [rc |-> -1, dst |-> d]
    ELSE [rc |-> 0, dst |-> [d EXCEPT !.type = "FR_TYPE_STRING", !.tainted = tainted,
                                      !.data = SubSeq(src, 1, len), !.length = len,
                                      !.enumv = "NULL", !.next = "NULL"]]

fr_value_box_memdup(d, src, len, tainted, alloc_ok) ==
    IF ~alloc_ok THEN [rc |-> -1, dst |-> d]
    ELSE [rc |-> 0, dst |-> [d EXCEPT !.type = "FR_TYPE_OCTETS", !.tainted = tainted,
                                      !.data = SubSeq(src, 1, len), !.length = len,
                                      !.enumv = "NULL", !.next = "NULL"]]

----------------------------------------------------------------------------
\* Network codec

\* fr_value_box_hton(dst, src) as [rc, dst]; same is dst == src.  The two float
\* cases read the member of dst, as the source does.
fr_value_box_hton(d, s, same) ==
    LET meta(x) == [rc |-> 0, dst |-> IF same THEN x ELSE fr_value_box_copy_meta(x, s)]
    IN  CASE s.type = "FR_TYPE_INVALID" -> [rc |-> -1, dst |-> d]
          [] s.type \in {"FR_TYPE_UINT16", "FR_TYPE_INT16"} ->
                meta([d EXCEPT !.bytes = memcpy(@, 0, htons(SubSeq(s.bytes, 1, 2)), 2)])
          [] s.type \in {"FR_TYPE_UINT32", "FR_TYPE_INT32", "FR_TYPE_DATE"} ->
                meta([d EXCEPT !.bytes = memcpy(@, 0, htonl(SubSeq(s.bytes, 1, 4)), 4)])
          [] s.type \in {"FR_TYPE_UINT64", "FR_TYPE_INT64", "FR_TYPE_DATE_MILLISECONDS",
                         "FR_TYPE_DATE_MICROSECONDS", "FR_TYPE_DATE_NANOSECONDS"} ->
                meta([d EXCEPT !.bytes = memcpy(@, 0, htonll(SubSeq(s.bytes, 1, 8)), 8)])
          [] s.type = "FR_TYPE_FLOAT32" ->
                meta([d EXCEPT !.bytes = memcpy(@, 0, htonl(SubSeq(d.bytes, 1, 4)), 4)])
          [] s.type = "FR_TYPE_FLOAT64" ->
                meta([d EXCEPT !.bytes = memcpy(@, 0, htonll(SubSeq(d.bytes, 1, 8)), 8)])
          [] s.type \in {"FR_TYPE_BOOL", "FR_TYPE_UINT8", "FR_TYPE_INT8", "FR_TYPE_IFID",
                         "FR_TYPE_ETHERNET", "FR_TYPE_SIZE", "FR_TYPE_TIMEVAL", "FR_TYPE_ABINARY"}
                         \cup IpTypes ->
                [rc |-> 0, dst |-> fr_value_box_copy(d, s, TRUE).dst]
          [] OTHER -> [rc |-> -1, dst |-> d]

fr_value_box_network_length(value) ==
    IF value.type \in VariableTypes THEN value.length
    ELSE fr_value_box_network_sizes(value.type)[1]

\* The variable length arm with need reporting only the bytes that did not fit
to_network_variable_rest(buf, dlen, value) ==
    LET len == IF value.length > dlen THEN dlen ELSE value.length
    IN  [rc |-> len,
         need |-> IF value.length > dlen THEN value.length - dlen ELSE 0,
         dst |-> IF value.length > 0 THEN memcpy(buf, 0, value.data, len) ELSE buf]

\* The variable length arm of fr_value_box_to_network, as [rc, need, dst]
to_network_variable(buf, dlen, value) ==
    LET len == IF value.length > dlen THEN dlen ELSE value.length
    IN  [rc |-> len,
         need |-> IF value.length > dlen THEN value.length ELSE 0,
         dst |-> IF value.length > 0 THEN memcpy(buf, 0, value.data, len) ELSE buf]

\* The per type switch of fr_value_box_to_network for a fixed size type that
\* fits, as [err, dst]: err is "assert" when fr_cond_assert fails, "unsupported"
\* at the label of that name.  tmp is the uninitialised fr_value_box_t on the
\* stack.
to_network_fixed(buf, value, tmp) ==
    LET min == fr_value_box_network_sizes(value.type)[1]
        ok(x) == [err |-> "none", dst |-> x]
    IN  CASE value.type = "FR_TYPE_IPV4_PREFIX" ->
                ok(memcpy(memcpy(buf, 0, <<value.ip.prefix>>, 1), 1, value.ip.addr, 4))
          [] value.type = "FR_TYPE_IPV6_PREFIX" ->
                ok(memcpy(memcpy(memcpy(buf, 0, <<value.ip.scope_id % 256>>, 1),
                                 1, <<value.ip.prefix>>, 1), 2, value.ip.addr, 16))
          [] value.type = "FR_TYPE_BOOL" ->
                ok(memcpy(buf, 0, <<IF value.bytes[1] # 0 THEN 1 ELSE 0>>, 1))
          [] value.type \in {"FR_TYPE_IPV4_ADDR", "FR_TYPE_IPV6_ADDR", "FR_TYPE_IFID",
                             "FR_TYPE_ETHERNET", "FR_TYPE_UINT8", "FR_TYPE_INT8"} ->
                IF fr_value_box_field_sizes(value.type) # min THEN [err |-> "assert", dst |-> buf]
                ELSE ok(memcpy(buf, 0, value.bytes, min))
          [] value.type \in {"FR_TYPE_UINT16", "FR_TYPE_UINT32", "FR_TYPE_UINT64",
                             "FR_TYPE_INT16", "FR_TYPE_INT32", "FR_TYPE_INT64",
                             "FR_TYPE_DATE", "FR_TYPE_FLOAT32", "FR_TYPE_FLOAT64",
                             "FR_TYPE_DATE_MILLISECONDS", "FR_TYPE_DATE_MICROSECONDS",
                             "FR_TYPE_DATE_NANOSECONDS"} ->
                IF fr_value_box_field_sizes(value.type) # min THEN [err |-> "assert", dst |-> buf]
                ELSE ok(memcpy(buf, 0, fr_value_box_hton(tmp, value, FALSE).dst.bytes, min))
          [] OTHER -> [err |-> "unsupported", dst |-> buf]

\* fr_value_box_to_network as [rc, need, dst]
fr_value_box_to_network(need_in, buf, dlen, value, tmp) ==
    LET min == fr_value_box_network_sizes(value.type)[1]
        max == fr_value_box_network_sizes(value.type)[2]
        out == to_network_fixed(buf, value, tmp)
    IN  IF value.type \in VariableTypes THEN to_network_variable(buf, dlen, value)
        ELSE IF min = 0 /\ max = 0 THEN [rc |-> -1, need |-> need_in, dst |-> buf]
        ELSE IF max > dlen THEN [rc |-> 0, need |-> max, dst |-> buf]
        ELSE IF out.err # "none" THEN [rc |-> -1, need |-> need_in, dst |-> buf]
        ELSE [rc |-> min, need |-> 0, dst |-> out.dst]

\* The length checks without the check for trailing bytes
from_network_length_min_only(len, type) ==
    ~(len < fr_value_box_network_sizes(type)[1])

\* The length checks that open fr_value_box_from_network
from_network_length_ok(len, type) ==
    /\ ~(len < fr_value_box_network_sizes(type)[1])
    /\ ~(len > fr_value_box_network_sizes(type)[2])

\* fr_value_box_from_network as [rc, dst]
fr_value_box_from_network(d, src, len, type, tainted, alloc_ok) ==
    LET finish(x) == [rc |-> len, dst |-> [x EXCEPT !.type = type, !.tainted = tainted,
                                                    !.enumv = "NULL", !.next = "NULL"]]
        ipset(x, from, n, scope, prefix, af) ==
            [x EXCEPT !.ip = [af |-> af, scope_id |-> scope, prefix |-> prefix, pad |-> x.ip.pad,
                              addr |-> memcpy(x.ip.addr, 0, from, n)]]
        raw == [d EXCEPT !.bytes = memcpy(@, 0, src, len)]
    IN  IF ~from_network_length_ok(len, type) THEN [rc |-> -1, dst |-> d]
        ELSE CASE type = "FR_TYPE_STRING" ->
                    LET r == fr_value_box_bstrndup(d, src, len, tainted, alloc_ok)
                    IN  IF r.rc < 0 THEN [rc |-> -1, dst |-> d] ELSE [rc |-> len, dst |-> r.dst]
               [] type = "FR_TYPE_OCTETS" ->
                    LET r == fr_value_box_memdup(d, src, len, tainted, alloc_ok)
                    IN  IF r.rc < 0 THEN [rc |-> -1, dst |-> d] ELSE [rc |-> len, dst |-> r.dst]
               [] type = "FR_TYPE_IPV4_ADDR" ->
                    finish(ipset(d, src, len, 0, 32, "AF_INET"))
               [] type = "FR_TYPE_IPV4_PREFIX" ->
                    finish(ipset(d, Tail(src), len - 1, 0, src[1], "AF_INET"))
               [] type = "FR_TYPE_IPV6_ADDR" ->
                    finish(ipset(d, src, len - 1, 0, 128, "AF_INET6"))
               [] type = "FR_TYPE_IPV6_PREFIX" ->
                    finish(ipset(d, Tail(Tail(src)), len - 2, src[1], src[2], "AF_INET6"))
               [] type = "FR_TYPE_BOOL" ->
                    finish([d EXCEPT !.bytes = memcpy(@, 0, <<IF src[1] > 0 THEN 1 ELSE 0>>, 1)])
               [] type \in {"FR_TYPE_IFID", "FR_TYPE_ETHERNET", "FR_TYPE_UINT8", "FR_TYPE_INT8"} ->
                    finish(raw)
               [] type \in {"FR_TYPE_UINT16", "FR_TYPE_UINT32", "FR_TYPE_UINT64",
                            "FR_TYPE_INT16", "FR_TYPE_INT32", "FR_TYPE_INT64",
                            "FR_TYPE_DATE", "FR_TYPE_FLOAT32", "FR_TYPE_FLOAT64",
                            "FR_TYPE_DATE_MILLISECONDS", "FR_TYPE_DATE_MICROSECONDS",
                            "FR_TYPE_DATE_NANOSECONDS"} ->
                    finish(fr_value_box_hton(raw, raw, TRUE).dst)
               [] OTHER -> finish(d)
----------------------------------------------------------------------------
\* The values the operations are applied to

\* Big endian digits of the integers of width w that are tried
IntSamples(w) ==
    {Zeros(w), [i \in 1..w |-> 255], [i \in 1..w |-> i],
     [i \in 1..w |-> IF i = w THEN 1 ELSE 0],
     [i \in 1..w |-> IF i = 1 THEN 128 ELSE 0],
     [i \in 1..w |-> IF i = 1 THEN 127 ELSE 255],
     [i \in 1..w |-> IF i = w THEN 200 ELSE 0]}
    \cup (IF w = 2 THEN {<<1, 44>>} ELSE {})

NumericTypes ==
    {"FR_TYPE_UINT8", "FR_TYPE_UINT16", "FR_TYPE_UINT32", "FR_TYPE_UINT64",
     "FR_TYPE_INT8", "FR_TYPE_INT16", "FR_TYPE_INT32", "FR_TYPE_INT64",
     "FR_TYPE_FLOAT32", "FR_TYPE_FLOAT64", "FR_TYPE_DATE", "FR_TYPE_DATE_MILLISECONDS",
     "FR_TYPE_DATE_MICROSECONDS", "FR_TYPE_DATE_NANOSECONDS", "FR_TYPE_SIZE"}

\* A box of a numeric type holding the integer with big endian digits v
Scalar(type, v) ==
    [fr_value_box_alloc(type) EXCEPT !.bytes = memcpy(@, 0, IF le THEN Reverse(v) ELSE v, Len(v))]

\* A box holding the raw bytes v (bool, ethernet, ifid, timeval, abinary)
Raw(type, v) == [fr_value_box_alloc(type) EXCEPT !.bytes = memcpy(@, 0, v, Len(v))]

VarBox(type, s) == [fr_value_box_alloc(type) EXCEPT !.data = s, !.length = Len(s)]

IpBox(type, addr, prefix, scope_id) ==
    [fr_value_box_alloc(type) EXCEPT
        !.ip = [af |-> IF type \in {"FR_TYPE_IPV4_ADDR", "FR_TYPE_IPV4_PREFIX"}
                       THEN "AF_INET" ELSE "AF_INET6",
                addr |-> memcpy(Zeros(16), 0, addr, Len(addr)),
                prefix |-> prefix, pad |-> Zeros(3), scope_id |-> scope_id]]

V4Addrs == {<<10, 0, 0, 0>>, <<10, 1, 0, 0>>, <<10, 0, 0, 1>>, <<10, 0, 0, 2>>,
            <<10, 128, 0, 0>>, <<11, 0, 0, 0>>, <<192, 0, 2, 1>>}

V6Addrs == {Zeros(16),
            [i \in 1..16 |-> IF i = 16 THEN 1 ELSE 0],
            <<0, 0, 0, 0, 0, 0, 0, 0, 0, 0, 255, 255, 10, 0, 0, 1>>,
            <<32, 1, 13, 184, 0, 0, 0, 0, 0, 0, 0, 0, 0, 0, 0, 0>>,
            <<32, 1, 13, 184, 0, 0, 0, 0, 0, 0, 0, 0, 0, 0, 0, 1>>,
            <<32, 1, 13, 185, 0, 0, 0, 0, 128, 0, 0, 0, 0, 0, 0, 0>>}

NumericValues ==
    UNION {{Scalar(t, v) : v \in IntSamples(fr_value_box_field_sizes(t))} : t \in NumericTypes}

RawValues ==
    {Raw("FR_TYPE_BOOL", <<x>>) : x \in {0, 1}}
    \cup {Raw("FR_TYPE_ETHERNET", v) : v \in {Zeros(6), <<0, 17, 34, 51, 68, 85>>, <<0, 17, 34, 51, 68, 86>>}}
    \cup {Raw("FR_TYPE_IFID", v) : v \in {Zeros(8), [i \in 1..8 |-> i], [i \in 1..8 |-> 255]}}

StringValues ==
    UNION {{VarBox(t, s) : s \in UNION {[1..k -> {0, 97}] : k \in 0..MaxLen}
                                 \cup {<<104, 101, 108, 108, 111>>}} : t \in VariableTypes}

\* A box some earlier use has left behind
UsedBox ==
    [type |-> "FR_TYPE_UINT16", tainted |-> TRUE, enumv |-> "ENUM", next |-> "LINK",
     bytes |-> [i \in 1..32 |-> 165],
     ip |-> [af |-> "AF_INET", addr |-> [i \in 1..16 |-> 165], prefix |-> 165,
             pad |-> <<165, 165, 165>>, scope_id |-> 165],
     length |-> 0, data |-> <<>>]

\* What the destination of a decode or cast can hold before the call: a box from
\* fr_value_box_alloc for the type, a cleared box, a box used before
PriorBoxes(type) ==
    {fr_value_box_alloc(type), fr_value_box_alloc("FR_TYPE_INVALID"), UsedBox}

----------------------------------------------------------------------------
\* Network codec: encode a value, decode what was written; decode raw input

NetValues ==
    NumericValues \cup RawValues \cup StringValues
    \cup {Raw("FR_TYPE_TIMEVAL", [i \in 1..16 |-> i]), Raw("FR_TYPE_ABINARY", [i \in 1..32 |-> i])}
    \cup {IpBox("FR_TYPE_IPV4_ADDR", x, 32, 0) : x \in V4Addrs}
    \cup {IpBox("FR_TYPE_IPV4_PREFIX", x, p, 0) : x \in V4Addrs, p \in {0, 8, 24, 32}}
    \cup {IpBox("FR_TYPE_IPV6_ADDR", x, 128, s) : x \in V6Addrs, s \in {0, 5}}
    \cup {IpBox("FR_TYPE_IPV6_PREFIX", x, p, s) : x \in V6Addrs, p \in {0, 64, 128}, s \in {0, 5, 300}}

DecodeTypes ==
    NumericTypes \cup VariableTypes \cup IpTypes
    \cup {"FR_TYPE_BOOL", "FR_TYPE_ETHERNET", "FR_TYPE_IFID", "FR_TYPE_TIMEVAL",
          "FR_TYPE_ABINARY", "FR_TYPE_INVALID", "FR_TYPE_TLV"}

\* The output buffer before the call: dst_len bytes of 0xAA
Fill(n) == [i \in 1..n |-> 170]

InitNet ==
    /\ le \in BOOLEAN
    /\ mem = NoMem
    /\ text = <<>>
    /\ b = fr_value_box_alloc("FR_TYPE_INVALID")
    /\ rc = 0 /\ rc2 = 0 /\ need = -1
    /\ \/ /\ pc = "enc"
          /\ a \in NetValues
          /\ op = a.type
          /\ dst \in PriorBoxes(a.type)
          /\ dst_len \in 0..MaxDstLen
          /\ wire = Fill(dst_len)
       \/ /\ pc = "dec"
          /\ a = fr_value_box_alloc("FR_TYPE_INVALID")
          /\ op \in DecodeTypes
          /\ dst \in PriorBoxes(op)
          /\ dst_len \in 0..MaxDstLen \cup {32}
          /\ wire \in {[i \in 1..dst_len |-> (k * i) % 256] : k \in {1, 37}}

\* The caller encodes a into the buffer
ToNetwork ==
    /\ pc = "enc"
    /\ \E tmp \in {fr_value_box_alloc("FR_TYPE_INVALID"), UsedBox} :
        LET r == fr_value_box_to_network(need, wire, dst_len, a, tmp)
        IN  /\ rc' = r.rc
            /\ need' = r.need
            /\ wire' = r.dst
    /\ pc' = "encoded"
    /\ UNCHANGED <<text, mem, le, a, b, dst, op, dst_len, rc2>>

\* The caller decodes the bytes reported as written, for the type of a
FromNetworkBack ==
    /\ pc = "encoded"
    /\ rc >= 0
    /\ \E tainted \in BOOLEAN, alloc_ok \in BOOLEAN :
        LET r == fr_value_box_from_network(dst, SubSeq(wire, 1, rc), rc, a.type, tainted, alloc_ok)
        IN  /\ rc' = r.rc
            /\ dst' = r.dst
    /\ pc' = "decoded"
    /\ UNCHANGED <<text, mem, le, a, b, op, wire, dst_len, need, rc2>>

\* The caller decodes the input in wire for the type op
FromNetwork ==
    /\ pc = "dec"
    /\ \E tainted \in BOOLEAN, alloc_ok \in BOOLEAN :
        LET r == fr_value_box_from_network(dst, wire, Len(wire), op, tainted, alloc_ok)
        IN  /\ rc' = r.rc
            /\ dst' = r.dst
    /\ pc' = "parsed"
    /\ UNCHANGED <<text, mem, le, a, b, op, wire, dst_len, need, rc2>>

\* The caller normalises the byte order of a into another box
Hton ==
    /\ pc = "enc"
    /\ LET r == fr_value_box_hton(dst, a, FALSE)
       IN  /\ rc' = r.rc
           /\ dst' = r.dst
    /\ pc' = "swapped"
    /\ UNCHANGED <<text, mem, le, a, b, op, wire, dst_len, need, rc2>>

NextNet == ToNetwork \/ FromNetworkBack \/ FromNetwork \/ Hton

SpecNet == InitNet /\ [][NextNet]_vars
----------------------------------------------------------------------------
\* Claims about the network codec

\* The value a box holds: the member of the datum union its type selects
Payload(x) ==
    IF x.type \in {"FR_TYPE_IPV4_ADDR", "FR_TYPE_IPV4_PREFIX"}
    THEN <<SubSeq(x.ip.addr, 1, 4), x.ip.prefix, x.ip.scope_id>>
    ELSE IF x.type \in {"FR_TYPE_IPV6_ADDR", "FR_TYPE_IPV6_PREFIX"}
    THEN <<x.ip.addr, x.ip.prefix, x.ip.scope_id>>
    ELSE IF x.type \in VariableTypes THEN <<x.data, x.length>>
    ELSE <<SubSeq(x.bytes, 1, fr_value_box_field_sizes(x.type))>>

EncodableFixed ==
    (NumericTypes \ {"FR_TYPE_SIZE"}) \cup IpTypes
    \cup {"FR_TYPE_BOOL", "FR_TYPE_ETHERNET", "FR_TYPE_IFID"}

\* C1: for every encodable fixed size kind and every value of it, encoding into
\* a buffer that is large enough succeeds, and decoding the bytes reported as
\* written for the same kind succeeds and yields a box of that kind with the
\* same payload.
C1_RoundTrip ==
    (a.type \in EncodableFixed /\ dst_len >= fr_value_box_network_sizes(a.type)[2]) =>
        /\ pc = "encoded" => rc > 0
        /\ pc = "decoded" => (rc >= 0 /\ dst.type = a.type /\ Payload(dst) = Payload(a))

\* C8: a string or octets value of length L encoded into N bytes: never an
\* error, min(L, N) returned, exactly the first min(L, N) payload bytes copied,
\* need 0 when L <= N and L when L > N.
C8_PartialEncode ==
    (pc = "encoded" /\ a.type \in VariableTypes) =>
        LET L == a.length
            N == dst_len
            m == IF L < N THEN L ELSE N
        IN  /\ rc = m
            /\ SubSeq(wire, 1, m) = SubSeq(a.data, 1, m)
            /\ SubSeq(wire, m + 1, N) = SubSeq(Fill(N), m + 1, N)
            /\ need = IF L <= N THEN 0 ELSE L

\* "hello" into 3 bytes: 3 written, need = 5
C8_Witness ==
    /\ pc = "encoded" /\ a.type = "FR_TYPE_STRING"
    /\ a.data = <<104, 101, 108, 108, 111>> /\ dst_len = 3
    /\ rc = 3 /\ need = 5 /\ wire = <<104, 101, 108>>

\* C9: encoding a timeval, size or abinary value is an error (a negative
\* result) for every buffer size, and nothing is written.
C9_NotEncodable ==
    (pc = "encoded" /\ a.type \in {"FR_TYPE_TIMEVAL", "FR_TYPE_SIZE", "FR_TYPE_ABINARY"}) =>
        (rc < 0 /\ wire = Fill(dst_len))

\* C10: an input shorter than the minimum or longer than the maximum wire size
\* of the kind is rejected with an error and the destination box is left as it
\* was; for a fixed size kind only an input of exactly its wire size is accepted.
C10_LengthRejected ==
    [][(pc = "dec" /\ pc' = "parsed") =>
        LET min == fr_value_box_network_sizes(op)[1]
            max == fr_value_box_network_sizes(op)[2]
        IN  /\ (Len(wire) < min \/ Len(wire) > max) => (rc' < 0 /\ dst' = dst)
            /\ (min = max /\ rc' >= 0) => Len(wire) = min]_vars

\* A 32 bit integer offered 5 bytes: rejected, the used destination untouched
C10_Witness ==
    /\ pc = "parsed" /\ op = "FR_TYPE_UINT32" /\ Len(wire) = 5
    /\ rc = -1 /\ dst = UsedBox

\* C24: fr_value_box_hton(dst, src) with dst another box than src writes the
\* network byte order form of src's payload for every multi-byte fixed kind,
\* float32 and float64 included: the result depends on src only, never on what
\* dst held before
C24_HtonFromSource ==
    (pc = "swapped" /\ a.type \in NumericTypes \ {"FR_TYPE_UINT8", "FR_TYPE_INT8", "FR_TYPE_SIZE"})
    => /\ rc = 0
       /\ dst.type = a.type
       /\ LET w == fr_value_box_field_sizes(a.type)
          IN  SubSeq(dst.bytes, 1, w) = IF le THEN Reverse(SubSeq(a.bytes, 1, w))
                                        ELSE SubSeq(a.bytes, 1, w)

\* C25: fr_value_box_from_network for a kind that has no wire decoding (size,
\* timeval, abinary, the structural kinds), given input of a length that passes
\* the length checks, returns a negative error and does not make the
\* destination a value of that kind
C25_NoDecoding ==
    [][(pc = "dec" /\ pc' = "parsed"
        /\ op \in {"FR_TYPE_SIZE", "FR_TYPE_TIMEVAL", "FR_TYPE_ABINARY", "FR_TYPE_TLV"}
        /\ from_network_length_ok(Len(wire), op))
       => (rc' < 0 /\ (dst'.type = op => dst.type = op))]_vars

\* C26: for an IPv4 prefix fr_value_box_to_network writes exactly 5 bytes, the
\* prefix length and the 4 address bytes, and returns 5, which is also its
\* network length; fr_value_box_from_network accepts an input of exactly 5
\* bytes and copies exactly 4 address bytes
C26_Ipv4PrefixWire ==
    /\ [](a.type = "FR_TYPE_IPV4_PREFIX" => fr_value_box_network_length(a) = 5)
    /\ []((pc = "encoded" /\ a.type = "FR_TYPE_IPV4_PREFIX" /\ rc > 0) =>
            /\ rc = 5
            /\ SubSeq(wire, 1, 5) = <<a.ip.prefix>> \o SubSeq(a.ip.addr, 1, 4)
            /\ SubSeq(wire, 6, dst_len) = Fill(dst_len - 5))
    /\ [][(pc = "dec" /\ pc' = "parsed" /\ op = "FR_TYPE_IPV4_PREFIX") =>
            /\ rc' >= 0 <=> Len(wire) = 5
            /\ rc' >= 0 => /\ dst'.ip.prefix = wire[1]
                           /\ SubSeq(dst'.ip.addr, 1, 4) = SubSeq(wire, 2, 5)
                           /\ SubSeq(dst'.ip.addr, 5, 16) = SubSeq(dst.ip.addr, 5, 16)]_vars

----------------------------------------------------------------------------
\* Comparison engine

\* The big endian digits of the w byte integer member of the datum union
Digits(x, w) == IF le THEN Reverse(SubSeq(x.bytes, 1, w)) ELSE SubSeq(x.bytes, 1, w)

\* Two's complement digits with the sign bit flipped: their unsigned order is
\* the signed order
SignFlip(d) == [i \in 1..Len(d) |-> IF i = 1 THEN (d[1] + 128) % 256 ELSE d[i]]

\* CHECK without its second arm
CHECK_less_only(x, y, w) == IF memcmp(Digits(x, w), Digits(y, w), w) < 0 THEN -1 ELSE 0

\* CHECK(member) for the unsigned, the signed and the floating point members
CHECK_unsigned(x, y, w) == memcmp(Digits(x, w), Digits(y, w), w)

CHECK_signed(x, y, w) == memcmp(SignFlip(Digits(x, w)), SignFlip(Digits(y, w)), w)

\* IEEE 754 < and >: a NaN is neither below nor above anything, the two zeros
\* are equal, otherwise sign and magnitude order
CHECK_float(x, y, w) ==
    LET mag(d) == [i \in 1..w |-> IF i = 1 THEN d[1] % 128 ELSE d[i]]
        inf == [i \in 1..w |-> IF w = 4 THEN (IF i = 1 THEN 127 ELSE IF i = 2 THEN 128 ELSE 0)
                                        ELSE (IF i = 1 THEN 127 ELSE IF i = 2 THEN 240 ELSE 0)]
        dx == Digits(x, w)
        dy == Digits(y, w)
        nan(d) == memcmp(mag(d), inf, w) > 0
        neg(d) == d[1] >= 128
    IN  IF nan(dx) \/ nan(dy) THEN 0
        ELSE IF mag(dx) = Zeros(w) /\ mag(dy) = Zeros(w) THEN 0
        ELSE IF neg(dx) /\ ~neg(dy) THEN -1
        ELSE IF ~neg(dx) /\ neg(dy) THEN 1
        ELSE IF neg(dx) THEN memcmp(mag(dy), mag(dx), w)
        ELSE memcmp(mag(dx), mag(dy), w)

\* The memory image of an int or uint32_t member holding n
HostInt(n) ==
    LET d == <<0, 0, (n \div 256) % 256, n % 256>> IN IF le THEN Reverse(d) ELSE d

\* The memory image of the fr_ipaddr_t: af, addr, prefix, padding, scope_id
IpImage(ip) ==
    HostInt(CASE ip.af = "AF_INET" -> 2 [] ip.af = "AF_INET6" -> 10 [] OTHER -> 0)
    \o ip.addr \o <<ip.prefix>> \o ip.pad \o HostInt(ip.scope_id)

\* fr_timeval_cmp: seconds, then microseconds, both signed
fr_timeval_cmp(x, y) ==
    LET half(v, k) == [type |-> v.type, bytes |-> SubSeq(v.bytes, 8 * k + 1, 8 * k + 8)]
        s == CHECK_signed(half(x, 0), half(y, 0), 8)
    IN  IF s # 0 THEN s ELSE CHECK_signed(half(x, 1), half(y, 1), 8)

\* FR_TYPE_NON_VALUES: the structural and the invalid types
NonValues == {"FR_TYPE_INVALID", "FR_TYPE_TLV", "FR_TYPE_VSA", "FR_TYPE_MAX"}

\* The switch of fr_value_box_cmp: the value of `compare` for two boxes of one
\* type; a type without a case (abinary) leaves it 0
cmp_per_type(x, y) ==
    LET t == x.type IN
    CASE t \in VariableTypes ->
            LET length == IF x.length < y.length THEN x.length ELSE y.length
                c == memcmp(x.data, y.data, length)
            IN  IF length # 0 /\ c # 0 THEN c ELSE x.length - y.length
      [] t \in {"FR_TYPE_BOOL", "FR_TYPE_UINT8"} -> CHECK_unsigned(x, y, 1)
      [] t = "FR_TYPE_DATE" -> CHECK_unsigned(x, y, 4)
      [] t = "FR_TYPE_UINT16" -> CHECK_unsigned(x, y, 2)
      [] t = "FR_TYPE_UINT32" -> CHECK_signed(x, y, 4)
      [] t \in {"FR_TYPE_UINT64", "FR_TYPE_SIZE", "FR_TYPE_DATE_MILLISECONDS",
                "FR_TYPE_DATE_MICROSECONDS", "FR_TYPE_DATE_NANOSECONDS"} -> CHECK_unsigned(x, y, 8)
      [] t = "FR_TYPE_INT8" -> CHECK_signed(x, y, 1)
      [] t = "FR_TYPE_INT16" -> CHECK_signed(x, y, 2)
      [] t = "FR_TYPE_INT32" -> CHECK_signed(x, y, 4)
      [] t = "FR_TYPE_INT64" -> CHECK_signed(x, y, 8)
      [] t = "FR_TYPE_TIMEVAL" -> fr_timeval_cmp(x, y)
      [] t = "FR_TYPE_FLOAT32" -> CHECK_float(x, y, 4)
      [] t = "FR_TYPE_FLOAT64" -> CHECK_float(x, y, 8)
      [] t = "FR_TYPE_ETHERNET" -> memcmp(x.bytes, y.bytes, 6)
      [] t \in IpTypes -> memcmp(IpImage(x.ip), IpImage(y.ip), 28)
      [] t = "FR_TYPE_IFID" -> memcmp(x.bytes, y.bytes, 8)
      [] OTHER -> 0

\* fr_value_box_cmp: -1, 0, +1, or -2 when the boxes cannot be compared
fr_value_box_cmp(x, y) ==
    IF x.type = "FR_TYPE_INVALID" \/ y.type = "FR_TYPE_INVALID" THEN -1
    ELSE IF x.type # y.type THEN -2
    ELSE IF x.type \in NonValues THEN -2
    ELSE LET compare == cmp_per_type(x, y)
         IN  IF compare > 0 THEN 1
             ELSE IF compare < 0 THEN -1
             ELSE 0

\* The operators (FR_TOKEN) a comparison is asked with; T_OP_SET is not one of
\* the six comparison operators
CmpOps == {"T_OP_CMP_EQ", "T_OP_NE", "T_OP_LT", "T_OP_GT", "T_OP_LE", "T_OP_GE"}

\* (a[i] & mask) with mask = ~((1 << (8 - common)) - 1)
MaskByte(x, common) == x - (x % (2 ^ (8 - common)))

\* The mutant: whole bytes only, the bits of the last partial byte are skipped
cidr_whole_bytes(i, common, uint8s, x, y) ==
    \A k \in 1..(common \div 8) : x[k] = y[k]

\* The byte loop and the mask test of fr_value_box_cidr_cmp_op, from index i
\* (0 based) with `common` bits left to compare
RECURSIVE cidr_common_bits(_, _, _, _, _)
cidr_common_bits(i, common, uint8s, x, y) ==
    IF i < uint8s /\ common = 0 THEN TRUE
    ELSE IF i < uint8s /\ common >= 8
    THEN IF x[i + 1] # y[i + 1] THEN FALSE
         ELSE cidr_common_bits(i + 1, common - 8, uint8s, x, y)
    ELSE MaskByte(x[i + 1], common) = MaskByte(y[i + 1], common)

\* The identical netmask arm
cidr_same_net(o, uint8s, x, y) ==
    memcmp(x, y, uint8s) = 0 /\ o \in {"T_OP_CMP_EQ", "T_OP_LE", "T_OP_GE"}

\* The mutant: the direction test of the ordering operators turned around
cidr_by_operator_flipped(o, a_net, b_net) ==
    CASE o = "T_OP_CMP_EQ" -> "false"
      [] o = "T_OP_NE" -> "true"
      [] o \in {"T_OP_LE", "T_OP_LT"} -> IF a_net > b_net THEN "false" ELSE "bits"
      [] o \in {"T_OP_GE", "T_OP_GT"} -> IF a_net < b_net THEN "false" ELSE "bits"
      [] OTHER -> "false"

\* The mutant: equals and not-equals look at the common leading bits
cidr_by_operator_eq_bits(o, a_net, b_net) ==
    CASE o \in {"T_OP_CMP_EQ", "T_OP_NE"} -> "bits"
      [] o \in {"T_OP_LE", "T_OP_LT"} -> IF a_net < b_net THEN "false" ELSE "bits"
      [] o \in {"T_OP_GE", "T_OP_GT"} -> IF a_net > b_net THEN "false" ELSE "bits"
      [] OTHER -> "false"

\* The switch on the operator for differing netmasks: "false", "true", or
\* "bits" when the common leading bits decide
cidr_by_operator(o, a_net, b_net) ==
    CASE o = "T_OP_CMP_EQ" -> "false"
      [] o = "T_OP_NE" -> "true"
      [] o \in {"T_OP_LE", "T_OP_LT"} -> IF a_net < b_net THEN "false" ELSE "bits"
      [] o \in {"T_OP_GE", "T_OP_GT"} -> IF a_net > b_net THEN "false" ELSE "bits"
      [] OTHER -> "false"

\* fr_value_box_cidr_cmp_op; x and y are the memory from the address on
fr_value_box_cidr_cmp_op(o, uint8s, a_net, x, b_net, y) ==
    IF a_net = b_net THEN cidr_same_net(o, uint8s, x, y)
    ELSE LET w == cidr_by_operator(o, a_net, b_net)
         IN  IF w # "bits" THEN w = "true"
             ELSE cidr_common_bits(0, IF a_net < b_net THEN a_net ELSE b_net, uint8s, x, y)

\* The memory a pointer to ip.addr reaches: the address, then the rest of the
\* fr_ipaddr_t
FromAddr(ip) == SubSeq(IpImage(ip), 5, 28)

\* fr_value_box_cmp_op: 1 true, 0 false, -1 failure
fr_value_box_cmp_op(o, x, y) ==
    LET V4 == {"FR_TYPE_IPV4_ADDR", "FR_TYPE_IPV4_PREFIX"}
        V6 == {"FR_TYPE_IPV6_ADDR", "FR_TYPE_IPV6_PREFIX"}
        net(v) == IF v.type = "FR_TYPE_IPV4_ADDR" THEN 32
                  ELSE IF v.type = "FR_TYPE_IPV6_ADDR" THEN 128 ELSE v.ip.prefix
        cidr(n) == IF fr_value_box_cidr_cmp_op(o, n, net(x), FromAddr(x.ip), net(y), FromAddr(y.ip))
                   THEN 1 ELSE 0
        compare == fr_value_box_cmp(x, y)
    IN  IF x.type = "FR_TYPE_INVALID" \/ y.type = "FR_TYPE_INVALID" THEN -1
        ELSE IF x.type \in V4 /\ y.type \notin V4 THEN -1
        ELSE IF x.type \in V6 /\ y.type \notin V6 THEN -1
        ELSE IF x.type \in V4 /\ ~(x.type = "FR_TYPE_IPV4_ADDR" /\ y.type = "FR_TYPE_IPV4_ADDR")
        THEN cidr(4)
        ELSE IF x.type \in V6 /\ ~(x.type = "FR_TYPE_IPV6_ADDR" /\ y.type = "FR_TYPE_IPV6_ADDR")
        THEN cidr(16)
        ELSE IF compare < -1 THEN -1
        ELSE CASE o = "T_OP_CMP_EQ" -> IF compare = 0 THEN 1 ELSE 0
               [] o = "T_OP_NE" -> IF compare # 0 THEN 1 ELSE 0
               [] o = "T_OP_LT" -> IF compare < 0 THEN 1 ELSE 0
               [] o = "T_OP_GT" -> IF compare > 0 THEN 1 ELSE 0
               [] o = "T_OP_LE" -> IF compare <= 0 THEN 1 ELSE 0
               [] o = "T_OP_GE" -> IF compare >= 0 THEN 1 ELSE 0
               [] OTHER -> 0

\* An address box whose padding bytes hold what an earlier use left there
DirtyPad(x) == [x EXCEPT !.ip.pad = <<0, 0, 1>>]

\* In range prefix lengths, with ones that are not a multiple of 8
V4Prefixes == {0, 7, 8, 9, 12, 16, 24, 31, 32}
V6Prefixes == {0, 1, 31, 32, 64, 127, 128}

V4Values ==
    {IpBox("FR_TYPE_IPV4_ADDR", x, 32, 0) : x \in V4Addrs}
    \cup {DirtyPad(IpBox("FR_TYPE_IPV4_ADDR", <<10, 0, 0, 1>>, 32, 0))}
    \cup {IpBox("FR_TYPE_IPV4_PREFIX", x, p, 0) : x \in V4Addrs, p \in V4Prefixes}

V6Values ==
    {IpBox("FR_TYPE_IPV6_ADDR", x, 128, s) : x \in V6Addrs, s \in {0, 5}}
    \cup {IpBox("FR_TYPE_IPV6_PREFIX", x, p, 0) : x \in V6Addrs, p \in V6Prefixes}

ScalarValues ==
    NumericValues \cup RawValues \cup StringValues
    \cup {Raw("FR_TYPE_TIMEVAL", v) : v \in {Zeros(16), [i \in 1..16 |-> i], [i \in 1..16 |-> 255]}}

\* The pairs that are compared: two values of one type, two IP values of one
\* family, and a few pairs that cannot be compared
CmpPairs ==
    {<<x, y>> \in ScalarValues \X ScalarValues : x.type = y.type}
    \cup (V4Values \X V4Values) \cup (V6Values \X V6Values)
    \cup {<<IpBox("FR_TYPE_IPV4_ADDR", <<10, 0, 0, 1>>, 32, 0), y>> :
            y \in {IpBox("FR_TYPE_IPV6_ADDR", Zeros(16), 128, 0),
                   IpBox("FR_TYPE_IPV6_PREFIX", Zeros(16), 64, 0),
                   Scalar("FR_TYPE_UINT32", <<10, 0, 0, 1>>),
                   fr_value_box_alloc("FR_TYPE_TLV")}}
    \cup {<<fr_value_box_alloc(t), fr_value_box_alloc(t)>> : t \in {"FR_TYPE_TLV", "FR_TYPE_ABINARY"}}

InitCmp ==
    /\ le \in BOOLEAN
    /\ mem = NoMem
    /\ text = <<>>
    /\ pc = "cmp"
    /\ \E p \in CmpPairs : a = p[1] /\ b = p[2]
    /\ dst = fr_value_box_alloc("FR_TYPE_INVALID")
    /\ op = "T_OP_INVALID"
    /\ wire = <<>> /\ dst_len = 0 /\ need = -1
    /\ rc = 0 /\ rc2 = 0

\* The caller compares a with b
Cmp ==
    /\ pc = "cmp"
    /\ rc' = fr_value_box_cmp(a, b)
    /\ pc' = "cmp_ab"
    /\ UNCHANGED <<text, mem, le, a, b, dst, op, wire, dst_len, need, rc2>>

\* ... and then b with a
CmpBack ==
    /\ pc = "cmp_ab"
    /\ rc2' = fr_value_box_cmp(b, a)
    /\ pc' = "cmp_ba"
    /\ UNCHANGED <<text, mem, le, a, b, dst, op, wire, dst_len, need, rc>>

\* The caller evaluates a <op> b
CmpOp ==
    /\ pc = "cmp"
    /\ \E o \in CmpOps \cup {"T_OP_SET"} :
        /\ op' = o
        /\ rc' = fr_value_box_cmp_op(o, a, b)
    /\ pc' = "cmp_op"
    /\ UNCHANGED <<text, mem, le, a, b, dst, wire, dst_len, need, rc2>>

NextCmp == Cmp \/ CmpBack \/ CmpOp

SpecCmp == InitCmp /\ [][NextCmp]_vars
----------------------------------------------------------------------------
\* Claims about the comparison engine

\* Bit k (1 is the most significant bit of the first byte) of an address
AddrBit(addr, k) == (addr[((k - 1) \div 8) + 1] \div (2 ^ (7 - ((k - 1) % 8)))) % 2

\* The two addresses agree on their first n bits
AgreeBits(x, y, n) == \A k \in 1..n : AddrBit(x.ip.addr, k) = AddrBit(y.ip.addr, k)

\* The prefix length of an IP operand: an address counts as 32 or 128
NetOf(x) ==
    IF x.type = "FR_TYPE_IPV4_ADDR" THEN 32
    ELSE IF x.type = "FR_TYPE_IPV6_ADDR" THEN 128 ELSE x.ip.prefix

SameFamily(x, y) ==
    \/ {x.type, y.type} \subseteq {"FR_TYPE_IPV4_ADDR", "FR_TYPE_IPV4_PREFIX"}
    \/ {x.type, y.type} \subseteq {"FR_TYPE_IPV6_ADDR", "FR_TYPE_IPV6_PREFIX"}

C2Kinds ==
    {"FR_TYPE_UINT8", "FR_TYPE_UINT16", "FR_TYPE_UINT32", "FR_TYPE_UINT64",
     "FR_TYPE_INT8", "FR_TYPE_INT16", "FR_TYPE_INT32", "FR_TYPE_INT64",
     "FR_TYPE_DATE", "FR_TYPE_DATE_MILLISECONDS", "FR_TYPE_DATE_MICROSECONDS",
     "FR_TYPE_DATE_NANOSECONDS", "FR_TYPE_BOOL", "FR_TYPE_STRING", "FR_TYPE_OCTETS",
     "FR_TYPE_ETHERNET", "FR_TYPE_IFID"} \cup IpTypes

\* C2: for two boxes of the same comparable kind fr_value_box_cmp returns one
\* of -1, 0, +1, a box compared with itself gives 0, and cmp(a, b) is the
\* negation of cmp(b, a).
C2_CmpTotal ==
    (pc = "cmp_ba" /\ a.type = b.type /\ a.type \in C2Kinds) =>
        /\ rc \in {-1, 0, 1}
        /\ rc = -rc2
        /\ a = b => rc = 0

\* A string that is a proper prefix of the other is below it, and above it
\* the other way round
C2_Witness ==
    /\ pc = "cmp_ba" /\ a.type = "FR_TYPE_STRING"
    /\ a.data = <<97>> /\ b.data = <<97, 0>>
    /\ rc = -1 /\ rc2 = 1

\* C4 as stated: for IPv4 prefixes A shorter than B with B inside A, A <= B is
\* true; and A <= A is true for every prefix A.
C4_SupersetLE ==
    (pc = "cmp_op" /\ op = "T_OP_LE"
        /\ a.type = "FR_TYPE_IPV4_PREFIX" /\ b.type = "FR_TYPE_IPV4_PREFIX") =>
        /\ (a.ip.prefix < b.ip.prefix /\ AgreeBits(a, b, a.ip.prefix)) => rc = 1
        /\ a = b => rc = 1

\* C4 amended: for IPv4 prefixes A shorter than B with B inside A, A >= B is
\* true and A <= B is false; and A <= A is true for every prefix A.
C4_SupersetGE ==
    (pc = "cmp_op" /\ a.type = "FR_TYPE_IPV4_PREFIX" /\ b.type = "FR_TYPE_IPV4_PREFIX") =>
        /\ (a.ip.prefix < b.ip.prefix /\ AgreeBits(a, b, a.ip.prefix)) =>
                /\ op = "T_OP_GE" => rc = 1
                /\ op = "T_OP_LE" => rc = 0
        /\ (a = b /\ op = "T_OP_LE") => rc = 1

\* 10.0.0.0/8 >= 10.1.0.0/16 is true
C4_Witness ==
    /\ pc = "cmp_op" /\ op = "T_OP_GE" /\ rc = 1
    /\ a = IpBox("FR_TYPE_IPV4_PREFIX", <<10, 0, 0, 0>>, 8, 0)
    /\ b = IpBox("FR_TYPE_IPV4_PREFIX", <<10, 1, 0, 0>>, 16, 0)

\* C5: for IP operands of one family with differing prefix lengths (an address
\* counts as 32 or 128), < and <= are true exactly when A is longer than B and
\* agrees with B on B's bits; > and >= exactly when A is shorter than B and B
\* agrees with A on A's bits; also for lengths that are no multiple of 8 and 0.
C5_Membership ==
    (pc = "cmp_op" /\ SameFamily(a, b) /\ NetOf(a) # NetOf(b)) =>
        /\ op \in {"T_OP_LT", "T_OP_LE"} =>
                (rc = 1 <=> (NetOf(a) > NetOf(b) /\ AgreeBits(a, b, NetOf(b))))
        /\ op \in {"T_OP_GT", "T_OP_GE"} =>
                (rc = 1 <=> (NetOf(a) < NetOf(b) /\ AgreeBits(a, b, NetOf(a))))
        /\ rc \in {0, 1}

\* The address 10.0.0.1 is inside 10.1.0.0/9
C5_Witness ==
    /\ pc = "cmp_op" /\ op = "T_OP_LT" /\ rc = 1
    /\ a = IpBox("FR_TYPE_IPV4_ADDR", <<10, 0, 0, 1>>, 32, 0)
    /\ b = IpBox("FR_TYPE_IPV4_PREFIX", <<10, 1, 0, 0>>, 9, 0)

\* C6: for IP operands of one family with differing prefix lengths, equals is
\* false and not-equals is true, whatever the address bytes are.
C6_DifferentLength ==
    (pc = "cmp_op" /\ SameFamily(a, b) /\ NetOf(a) # NetOf(b)) =>
        /\ op = "T_OP_CMP_EQ" => rc = 0
        /\ op = "T_OP_NE" => rc = 1

\* 10.0.0.0/8 == 10.0.0.0/16 is false although the address bytes are the same
C6_Witness ==
    /\ pc = "cmp_op" /\ op = "T_OP_CMP_EQ" /\ rc = 0
    /\ a = IpBox("FR_TYPE_IPV4_PREFIX", <<10, 0, 0, 0>>, 8, 0)
    /\ b = IpBox("FR_TYPE_IPV4_PREFIX", <<10, 0, 0, 0>>, 16, 0)

\* C7: for two prefixes of equal length n, ==, <= and >= are true exactly when
\* the addresses agree on their first n bits, and <, <=, >, >= are all false
\* when they do not.
C7_EqualLength ==
    (pc = "cmp_op" /\ SameFamily(a, b) /\ a.type = b.type
        /\ a.type \in {"FR_TYPE_IPV4_PREFIX", "FR_TYPE_IPV6_PREFIX"}
        /\ a.ip.prefix = b.ip.prefix) =>
        /\ op \in {"T_OP_CMP_EQ", "T_OP_LE", "T_OP_GE"} =>
                (rc = 1 <=> AgreeBits(a, b, a.ip.prefix))
        /\ (op \in {"T_OP_LT", "T_OP_LE", "T_OP_GT", "T_OP_GE"}
                /\ ~AgreeBits(a, b, a.ip.prefix)) => rc = 0

\* C22: fr_value_box_cmp on two 32 bit unsigned integers orders them by their
\* unsigned value over 0 .. 2^32 - 1: -1 exactly when a < b, 0 exactly when they
\* are equal, +1 exactly when a > b, operands of 2^31 and above included
C22_Uint32Order ==
    (pc = "cmp_ab" /\ a.type = "FR_TYPE_UINT32" /\ b.type = "FR_TYPE_UINT32")
    => rc = memcmp(Digits(a, 4), Digits(b, 4), 4)

\* C27: for two IP operands of the same address family whose comparison does
\* not fail, a != b is true exactly when a == b is false
C27_NotEqualIsNegation ==
    (pc = "cmp_op" /\ op = "T_OP_NE" /\ SameFamily(a, b) /\ rc >= 0
        /\ fr_value_box_cmp_op("T_OP_CMP_EQ", a, b) >= 0)
    => (rc = 1 <=> fr_value_box_cmp_op("T_OP_CMP_EQ", a, b) = 0)

----------------------------------------------------------------------------
\* Casts

\* dst->datum.member = v for the integer with big endian digits v
SetInt(d, v) == [d EXCEPT !.bytes = memcpy(@, 0, IF le THEN Reverse(v) ELSE v, Len(v))]

\* Integer conversion to w bytes: zero extension of an unsigned value, or the
\* low bytes of a wider one
ToWidth(v, w) ==
    IF Len(v) <= w THEN Zeros(w - Len(v)) \o v ELSE SubSeq(v, Len(v) - w + 1, Len(v))

\* The memory at &src->datum
DatumImage(s) == IF s.type \in IpTypes THEN IpImage(s.ip) \o Zeros(4) ELSE s.bytes

\* do_octets of fr_value_box_cast; past is the memory after the octets buffer
cast_do_octets(d, dst_type, dst_enumv, src, past) ==
    IF src.length < fr_value_box_network_sizes(dst_type)[1]
       \/ src.length > fr_value_box_network_sizes(dst_type)[2]
    THEN [rc |-> -1, dst |-> d]
    ELSE LET tmp == [fr_value_box_alloc(dst_type) EXCEPT
                        !.bytes = memcpy(@, 0, src.data \o past, fr_value_box_field_sizes(dst_type))]
             r == fr_value_box_hton([d EXCEPT !.enumv = dst_enumv], tmp, FALSE).dst
         IN  [rc |-> 0,
              dst |-> IF r.type \in {"FR_TYPE_IPV4_ADDR", "FR_TYPE_IPV6_ADDR"}
                      THEN [r EXCEPT !.ip.af = IF r.type = "FR_TYPE_IPV4_ADDR" THEN "AF_INET"
                                                ELSE "AF_INET6",
                                     !.ip.prefix = 128, !.ip.scope_id = 0]
                      ELSE r]

\* The integer destinations with their own switch: "set" with the digits
\* stored, "octets" for do_octets, "invalid" for invalid_cast and range errors
cast_integer_switch(dst_type, src) ==
    LET st == src.type
        set(v) == [how |-> "set", v |-> v]
        invalid == [how |-> "invalid", v |-> <<>>]
        widen(w, n) == set(ToWidth(Digits(src, w), n))
        positive(v) == IF Digits(src, 4)[1] >= 128 THEN invalid ELSE set(v)
    IN  CASE dst_type = "FR_TYPE_UINT16" /\ st = "FR_TYPE_UINT8" -> widen(1, 2)
          [] dst_type = "FR_TYPE_UINT32" /\ st = "FR_TYPE_UINT8" -> widen(1, 4)
          [] dst_type = "FR_TYPE_UINT32" /\ st = "FR_TYPE_UINT16" -> widen(2, 4)
          [] dst_type = "FR_TYPE_UINT32" /\ st = "FR_TYPE_INT32" -> positive(Digits(src, 4))
          [] dst_type = "FR_TYPE_UINT64" /\ st = "FR_TYPE_UINT8" -> widen(1, 8)
          [] dst_type = "FR_TYPE_UINT64" /\ st = "FR_TYPE_UINT16" -> widen(2, 8)
          [] dst_type = "FR_TYPE_UINT64" /\ st \in {"FR_TYPE_UINT32", "FR_TYPE_DATE"} -> widen(4, 8)
          [] dst_type = "FR_TYPE_INT32" /\ st = "FR_TYPE_UINT8" -> widen(1, 4)
          [] dst_type = "FR_TYPE_INT32" /\ st = "FR_TYPE_UINT16" -> widen(2, 4)
          [] dst_type = "FR_TYPE_INT32" /\ st = "FR_TYPE_UINT32" -> positive(Digits(src, 4))
          [] dst_type = "FR_TYPE_INT32" /\ st = "FR_TYPE_UINT64" ->
                positive(ToWidth(Digits(src, 8), 4))
          [] st = "FR_TYPE_OCTETS" -> [how |-> "octets", v |-> <<>>]
          [] OTHER -> invalid

\* The timeval destination: tv_sec from an unsigned integer, tv_usec 0; the
\* switch does not leave the function
cast_timeval_switch(d, src) ==
    LET w == fr_value_box_field_sizes(src.type) IN
    IF src.type \in {"FR_TYPE_UINT8", "FR_TYPE_UINT16", "FR_TYPE_UINT32", "FR_TYPE_UINT64"}
    THEN [rc |-> 0, dst |-> [SetInt(d, ToWidth(Digits(src, w), 8)) EXCEPT
                                !.bytes = memcpy(@, 8, Zeros(8), 8)]]
    ELSE [rc |-> -1, dst |-> d]

\* The end of fr_value_box_cast: the IPv4 address conversions, and the copy of
\* the source's member for everything else
cast_same_order(d, dst_type, dst_enumv, src) ==
    LET int32s == {"FR_TYPE_UINT32", "FR_TYPE_DATE", "FR_TYPE_INT32"}
        out == IF dst_type = "FR_TYPE_IPV4_ADDR" /\ src.type \in int32s
               THEN [d EXCEPT !.ip.af = "AF_INET", !.ip.prefix = 32, !.ip.scope_id = 0,
                              !.ip.addr = memcpy(@, 0, htonl(SubSeq(src.bytes, 1, 4)), 4)]
               ELSE IF src.type = "FR_TYPE_IPV4_ADDR" /\ dst_type \in int32s
               THEN [d EXCEPT !.bytes = memcpy(@, 0, htonl(SubSeq(src.ip.addr, 1, 4)), 4)]
               ELSE [d EXCEPT !.bytes = memcpy(@, 0, DatumImage(src),
                                               fr_value_box_field_sizes(src.type))]
    IN  [rc |-> 0, dst |-> [out EXCEPT !.type = dst_type, !.enumv = dst_enumv]]

\* fr_value_box_cast_to_octets as [rc, dst, fault]: the buffer holds the string,
\* the address, <prefix><address>, <scope><prefix><address>, or the member of
\* the datum union after fr_value_box_hton.  The two prefix cases write to the
\* result of talloc_array without testing it (fault).
fr_value_box_cast_to_octets(d, src, alloc_ok) ==
    LET array == src.type \in {"FR_TYPE_IPV4_PREFIX", "FR_TYPE_IPV6_PREFIX"}
        swapped == fr_value_box_hton(d, src, FALSE).dst
        bin == CASE src.type = "FR_TYPE_STRING" -> src.data
                 [] src.type = "FR_TYPE_IPV4_ADDR" -> SubSeq(src.ip.addr, 1, 4)
                 [] src.type = "FR_TYPE_IPV4_PREFIX" -> <<src.ip.prefix>> \o SubSeq(src.ip.addr, 1, 4)
                 [] src.type = "FR_TYPE_IPV6_ADDR" -> src.ip.addr
                 [] src.type = "FR_TYPE_IPV6_PREFIX" ->
                        <<src.ip.scope_id % 256, src.ip.prefix>> \o src.ip.addr
                 [] OTHER -> SubSeq(DatumImage(swapped), 1, fr_value_box_field_sizes(src.type))
        out == IF src.type \in VariableTypes \cup IpTypes THEN d ELSE swapped
    IN  IF ~alloc_ok THEN [rc |-> -1, dst |-> out, fault |-> array]
        ELSE [rc |-> 0, fault |-> FALSE,
              dst |-> [out EXCEPT !.type = "FR_TYPE_OCTETS", !.tainted = src.tainted,
                                  !.data = bin, !.length = Len(bin),
                                  !.enumv = "NULL", !.next = "NULL"]]

\* The IPv4 in IPv6 mapping prefix ::ffff:0:0/96
v4_v6_map == <<0, 0, 0, 0, 0, 0, 0, 0, 0, 0, 255, 255>>

\* memcpy(&dst->datum.ip.addr, from, n)
SetAddr(d, from, n) == [d EXCEPT !.ip.addr = memcpy(@, 0, from, n)]

\* The mutant: a prefix of any length is taken as an address
cast_to_ipv4addr_any_prefix(d, src) ==
    [rc |-> 0, dst |-> [SetAddr(d, src.ip.addr, 4) EXCEPT !.ip.af = "AF_INET", !.ip.prefix = 32,
                                                         !.ip.scope_id = 0,
                                                         !.type = "FR_TYPE_IPV4_ADDR"]]

\* fr_value_box_cast_to_ipv4addr as [rc, dst], for a source that is not a string
fr_value_box_cast_to_ipv4addr(d, src) ==
    LET done(x) == [rc |-> 0, dst |-> [x EXCEPT !.ip.af = "AF_INET", !.ip.prefix = 32,
                                               !.ip.scope_id = 0, !.type = "FR_TYPE_IPV4_ADDR"]]
        fail == [rc |-> -1, dst |-> d]
        mapped == memcmp(src.ip.addr, v4_v6_map, 12) = 0
    IN  CASE src.type = "FR_TYPE_IPV6_ADDR" ->
                IF ~mapped THEN fail ELSE done(SetAddr(d, SubSeq(src.ip.addr, 13, 16), 4))
          [] src.type = "FR_TYPE_IPV4_PREFIX" ->
                IF src.ip.prefix # 32 THEN fail ELSE done(SetAddr(d, src.ip.addr, 4))
          [] src.type = "FR_TYPE_IPV6_PREFIX" ->
                IF src.ip.prefix # 128 \/ ~mapped THEN fail
                ELSE done(SetAddr(d, SubSeq(src.ip.addr, 13, 16), 4))
          [] src.type = "FR_TYPE_OCTETS" ->
                IF src.length # 4 THEN fail ELSE done(SetAddr(d, src.data, 4))
          [] src.type = "FR_TYPE_UINT32" -> done(SetAddr(d, htonl(SubSeq(src.bytes, 1, 4)), 4))
          [] OTHER -> fail

\* fr_value_box_cast_to_ipv4prefix as [rc, dst]; a source type without a case
\* leaves the switch by `break`
fr_value_box_cast_to_ipv4prefix(d, src) ==
    LET done(x) == [rc |-> 0, dst |-> [x EXCEPT !.ip.af = "AF_INET", !.ip.scope_id = 0,
                                               !.type = "FR_TYPE_IPV4_PREFIX"]]
        fail == [rc |-> -1, dst |-> d]
        mapped == memcmp(src.ip.addr, v4_v6_map, 12) = 0
    IN  CASE src.type = "FR_TYPE_IPV4_ADDR" -> done([d EXCEPT !.ip = src.ip])
          [] src.type = "FR_TYPE_IPV6_ADDR" ->
                IF ~mapped THEN fail
                ELSE done([SetAddr(d, SubSeq(src.ip.addr, 13, 16), 4) EXCEPT !.ip.prefix = 32])
          [] src.type = "FR_TYPE_IPV6_PREFIX" ->
                IF ~mapped \/ src.ip.prefix < 96 THEN fail
                ELSE done([SetAddr(d, SubSeq(src.ip.addr, 13, 16), 4) EXCEPT
                              !.ip.prefix = src.ip.prefix - 96])
          [] src.type = "FR_TYPE_OCTETS" ->
                IF src.length # 5 THEN fail
                ELSE done([SetAddr(d, SubSeq(src.data, 2, 5), 4) EXCEPT !.ip.prefix = src.data[1]])
          [] src.type = "FR_TYPE_UINT32" ->
                done([SetAddr(d, htonl(SubSeq(src.bytes, 1, 4)), 4) EXCEPT !.ip.prefix = 32])
          [] OTHER -> done(d)

\* fr_value_box_cast_to_ipv6addr as [rc, dst]; the default case reports the
\* cast as unsupported and leaves the switch by `break`
fr_value_box_cast_to_ipv6addr(d, src) ==
    LET done(x) == [rc |-> 0, dst |-> [x EXCEPT !.ip.af = "AF_INET6", !.ip.prefix = 128,
                                               !.type = "FR_TYPE_IPV6_ADDR"]]
        fail == [rc |-> -1, dst |-> d]
        map4 == [SetAddr(d, v4_v6_map \o SubSeq(src.ip.addr, 1, 4), 16) EXCEPT !.ip.scope_id = 0]
    IN  CASE src.type = "FR_TYPE_IPV4_ADDR" -> done(map4)
          [] src.type = "FR_TYPE_IPV4_PREFIX" -> IF src.ip.prefix # 32 THEN fail ELSE done(map4)
          [] src.type = "FR_TYPE_IPV6_PREFIX" ->
                IF src.ip.prefix # 128 THEN fail
                ELSE done([SetAddr(d, src.ip.addr, 16) EXCEPT !.ip.scope_id = src.ip.scope_id])
          [] src.type = "FR_TYPE_OCTETS" ->
                IF src.length # 16 THEN fail ELSE done(SetAddr(d, src.data, 16))
          [] OTHER -> done(d)

\* fr_value_box_cast_to_ipv6prefix as [rc, dst]; the octets case copies the
\* address from the start of the buffer
fr_value_box_cast_to_ipv6prefix(d, src) ==
    LET done(x) == [rc |-> 0, dst |-> [x EXCEPT !.ip.af = "AF_INET6", !.type = "FR_TYPE_IPV6_PREFIX"]]
        fail == [rc |-> -1, dst |-> d]
        map4 == [SetAddr(d, v4_v6_map \o SubSeq(src.ip.addr, 1, 4), 16) EXCEPT !.ip.scope_id = 0]
    IN  CASE src.type = "FR_TYPE_IPV4_ADDR" -> done([map4 EXCEPT !.ip.prefix = 128])
          [] src.type = "FR_TYPE_IPV4_PREFIX" ->
                done([map4 EXCEPT !.ip.prefix = (96 + src.ip.prefix) % 256])
          [] src.type = "FR_TYPE_IPV6_ADDR" ->
                done([SetAddr(d, src.ip.addr, 16) EXCEPT !.ip.prefix = 128,
                                                         !.ip.scope_id = src.ip.scope_id])
          [] src.type = "FR_TYPE_OCTETS" ->
                IF src.length # 18 THEN fail
                ELSE done([SetAddr(d, src.data, 16) EXCEPT !.ip.scope_id = src.data[1],
                                                          !.ip.prefix = src.data[2]])
          [] OTHER -> done(d)

\* The destination types fr_value_box_cast handles in its own body
CastBodyTypes ==
    NumericTypes \cup {"FR_TYPE_BOOL", "FR_TYPE_ETHERNET", "FR_TYPE_IFID", "FR_TYPE_TIMEVAL",
                       "FR_TYPE_ABINARY"}

\* fr_value_box_cast as [rc, dst]
fr_value_box_cast(d, dst_type, dst_enumv, src, past, alloc_ok) ==
    LET zero == fr_value_box_alloc("FR_TYPE_INVALID")
        fixed_length(x) == [rc |-> 0, dst |-> [x EXCEPT !.type = dst_type, !.enumv = dst_enumv]]
        sw == cast_integer_switch(dst_type, src)
        tv == IF dst_type = "FR_TYPE_TIMEVAL" THEN cast_timeval_switch(zero, src)
              ELSE [rc |-> 0, dst |-> zero]
    IN  IF dst_type = "FR_TYPE_INVALID" \/ src.type = "FR_TYPE_INVALID" THEN [rc |-> -1, dst |-> d]
        ELSE IF dst_type \in NonValues THEN [rc |-> -1, dst |-> d]
        ELSE IF dst_type = src.type THEN fr_value_box_copy(d, src, alloc_ok)
        ELSE IF dst_type = "FR_TYPE_OCTETS" THEN fr_value_box_cast_to_octets(zero, src, alloc_ok)
        ELSE IF dst_type = "FR_TYPE_IPV4_ADDR" THEN fr_value_box_cast_to_ipv4addr(zero, src)
        ELSE IF dst_type = "FR_TYPE_IPV4_PREFIX" THEN fr_value_box_cast_to_ipv4prefix(zero, src)
        ELSE IF dst_type = "FR_TYPE_IPV6_ADDR" THEN fr_value_box_cast_to_ipv6addr(zero, src)
        ELSE IF dst_type = "FR_TYPE_IPV6_PREFIX" THEN fr_value_box_cast_to_ipv6prefix(zero, src)
        ELSE IF src.type = "FR_TYPE_IFID" /\ dst_type = "FR_TYPE_UINT64"
        THEN fixed_length([zero EXCEPT !.bytes = memcpy(@, 0, htonll(SubSeq(src.bytes, 1, 8)), 8)])
        ELSE IF src.type = "FR_TYPE_UINT64" /\ dst_type = "FR_TYPE_ETHERNET"
        THEN LET array == Digits(src, 8)
             IN  IF array[1] # 0 \/ array[2] # 0 THEN [rc |-> -1, dst |-> zero]
                 ELSE fixed_length([zero EXCEPT !.bytes = memcpy(@, 0, SubSeq(array, 3, 8), 6)])
        ELSE IF dst_type \in {"FR_TYPE_UINT16", "FR_TYPE_UINT32", "FR_TYPE_UINT64", "FR_TYPE_INT32"}
        THEN CASE sw.how = "set" -> fixed_length(SetInt(zero, sw.v))
               [] sw.how = "octets" -> cast_do_octets(zero, dst_type, dst_enumv, src, past)
               [] OTHER -> [rc |-> -1, dst |-> zero]
        ELSE IF tv.rc < 0 THEN [rc |-> -1, dst |-> zero]
        ELSE IF src.type = "FR_TYPE_OCTETS"
        THEN cast_do_octets(tv.dst, dst_type, dst_enumv, src, past)
        ELSE cast_same_order(tv.dst, dst_type, dst_enumv, src)

\* The sources of a cast: every fixed size type and octets
CastSources ==
    NumericValues \cup RawValues
    \cup {VarBox("FR_TYPE_OCTETS", s) : s \in
            UNION {[1..k -> {0, 97}] : k \in 0..MaxLen}
            \cup {[i \in 1..k |-> i] : k \in {4, 5, 6, 8, 16, 18, 32}}}
    \cup {IpBox("FR_TYPE_IPV4_ADDR", x, 32, 0) : x \in V4Addrs}
    \cup {IpBox("FR_TYPE_IPV4_PREFIX", <<192, 0, 2, 1>>, p, 0) : p \in {0, 24, 32}}
    \cup {IpBox("FR_TYPE_IPV6_ADDR", x, 128, 5) : x \in V6Addrs}
    \cup {IpBox("FR_TYPE_IPV6_PREFIX", x, p, 5) : x \in V6Addrs, p \in {64, 96, 120, 128}}
    \cup {Raw("FR_TYPE_TIMEVAL", [i \in 1..16 |-> i]), Raw("FR_TYPE_ABINARY", [i \in 1..32 |-> i])}
    \cup {Scalar("FR_TYPE_UINT64", v) : v \in {<<0, 0, 0, 1, 0, 0, 0, 5>>, <<0, 0, 0, 0, 128, 0, 0, 0>>,
                                              <<0, 0, 0, 0, 0, 0, 0, 5>>}}

InitCast ==
    /\ le \in BOOLEAN
    /\ mem = NoMem
    /\ text = <<>>
    /\ pc = "cast"
    /\ \E s \in CastSources, tainted \in BOOLEAN : a = [s EXCEPT !.tainted = tainted]
    /\ b = fr_value_box_alloc("FR_TYPE_INVALID")
    /\ op \in CastBodyTypes \cup IpTypes
    /\ dst \in PriorBoxes(op)
    /\ wire = <<>> /\ dst_len = 0 /\ need = -1
    /\ rc = 0 /\ rc2 = 0

\* The caller casts a to the type op, into dst
Cast ==
    /\ pc = "cast"
    /\ \E dst_enumv \in {"NULL", "ENUM"}, alloc_ok \in BOOLEAN,
          past \in {Zeros(32), [i \in 1..32 |-> 165]} :
        LET r == fr_value_box_cast(dst, op, dst_enumv, a, past, alloc_ok)
        IN  /\ rc' = r.rc
            /\ dst' = r.dst
    /\ pc' = "cast_done"
    /\ UNCHANGED <<text, mem, le, a, b, op, wire, dst_len, need, rc2>>

NextCast == Cast

SpecCast == InitCast /\ [][NextCast]_vars

\* A prefix is cast to octets and the octets are cast back to the prefix type
InitRound ==
    /\ le \in BOOLEAN
    /\ mem = NoMem
    /\ text = <<>>
    /\ pc = "to_octets"
    /\ \E tainted \in BOOLEAN :
        \E s \in {IpBox("FR_TYPE_IPV4_PREFIX", x, p, 0) : x \in V4Addrs, p \in {0, 24, 32}}
                 \cup {IpBox("FR_TYPE_IPV6_PREFIX", x, p, sc) :
                          x \in V6Addrs, p \in {0, 64, 128}, sc \in {0, 5, 300}} :
            a = [s EXCEPT !.tainted = tainted]
    /\ op = a.type
    /\ dst \in PriorBoxes("FR_TYPE_OCTETS")
    /\ b \in PriorBoxes(op)
    /\ wire = <<>> /\ dst_len = 0 /\ need = -1
    /\ rc = 0 /\ rc2 = 0

\* fr_value_box_cast(ctx, dst, FR_TYPE_OCTETS, NULL, a)
CastToOctets ==
    /\ pc = "to_octets"
    /\ \E alloc_ok \in BOOLEAN :
        LET r == fr_value_box_cast(dst, "FR_TYPE_OCTETS", "NULL", a, Zeros(32), alloc_ok)
        IN  /\ rc' = r.rc
            /\ dst' = r.dst
            /\ mem' = [mem EXCEPT !.fault = r.fault]
    /\ pc' = "octets"
    /\ UNCHANGED <<text, le, a, b, op, wire, dst_len, need, rc2>>

\* fr_value_box_cast(ctx, b, op, NULL, dst) on the octets of a cast that succeeded
CastBack ==
    /\ pc = "octets" /\ rc = 0
    /\ LET r == fr_value_box_cast(b, op, "NULL", dst, Zeros(32), TRUE)
       IN  /\ rc2' = r.rc
           /\ b' = r.dst
    /\ pc' = "back"
    /\ UNCHANGED <<text, mem, le, a, dst, op, wire, dst_len, need, rc>>

NextRound == CastToOctets \/ CastBack

SpecRound == InitRound /\ [][NextRound]_vars

\* fr_value_box_from_ipaddr as [rc, dst]: the type follows from the address
\* family and the prefix length
fr_value_box_from_ipaddr(d, ipaddr, tainted) ==
    LET assign(type) == [rc |-> 0, dst |-> [d EXCEPT !.type = type, !.tainted = tainted,
                                                    !.ip = ipaddr, !.enumv = "NULL",
                                                    !.next = "NULL"]]
    IN  CASE ipaddr.af = "AF_INET" ->
                IF ipaddr.prefix > 32 THEN [rc |-> -1, dst |-> d]
                ELSE assign(IF ipaddr.prefix = 32 THEN "FR_TYPE_IPV4_ADDR" ELSE "FR_TYPE_IPV4_PREFIX")
          [] ipaddr.af = "AF_INET6" ->
                IF ipaddr.prefix > 128 THEN [rc |-> -1, dst |-> d]
                ELSE assign(IF ipaddr.prefix = 128 THEN "FR_TYPE_IPV6_ADDR" ELSE "FR_TYPE_IPV6_PREFIX")
          [] OTHER -> [rc |-> -1, dst |-> d]

MaxCalls == 3       \* calls that make an IP value, one after the other

\* IP values are made one after the other: a is the value of the last call
\* that succeeded, b the one before it
InitIp ==
    /\ le \in BOOLEAN
    /\ mem = NoMem
    /\ text = <<>>
    /\ pc = <<>>
    /\ a = fr_value_box_alloc("FR_TYPE_INVALID")
    /\ b = fr_value_box_alloc("FR_TYPE_INVALID")
    /\ dst = fr_value_box_alloc("FR_TYPE_INVALID")
    /\ op = "FR_TYPE_INVALID"
    /\ wire = <<>> /\ dst_len = 0 /\ need = -1
    /\ rc = 0 /\ rc2 = 0

\* The call `name` gave r: a success makes r.dst the last value
Made(name, r) ==
    /\ pc' = Append(pc, name)
    /\ rc' = r.rc
    /\ a' = IF r.rc >= 0 THEN r.dst ELSE a
    /\ b' = IF r.rc >= 0 THEN a ELSE b
    /\ UNCHANGED <<text, mem, le, dst, op, wire, dst_len, need, rc2>>

FromIpaddr ==
    /\ Len(pc) < MaxCalls
    /\ \E af \in {"AF_INET", "AF_INET6", "AF_UNSPEC"}, prefix \in {0, 24, 32, 33, 64, 128, 129},
          addr \in {<<10, 0, 0, 1>>, <<32, 1, 13, 184, 0, 0, 0, 0, 0, 0, 0, 0, 0, 0, 0, 1>>} :
        /\ (af = "AF_INET") <=> (Len(addr) = 4)
        /\ Made("from_ipaddr",
                fr_value_box_from_ipaddr(fr_value_box_alloc("FR_TYPE_INVALID"),
                    [af |-> af, addr |-> memcpy(Zeros(16), 0, addr, Len(addr)), prefix |-> prefix,
                     pad |-> Zeros(3), scope_id |-> 0], FALSE))

FromNetworkIp ==
    /\ Len(pc) < MaxCalls
    /\ \E type \in IpTypes, len \in {4, 6, 16, 18}, k \in {8, 200} :
        Made("from_network",
             fr_value_box_from_network(fr_value_box_alloc("FR_TYPE_INVALID"),
                 [i \in 1..len |-> k], len, type, FALSE, TRUE))

\* A cast of the last value, or of octets, to an IP type
CastIp ==
    /\ Len(pc) < MaxCalls
    /\ \E type \in IpTypes,
          src \in {a} \cup {VarBox("FR_TYPE_OCTETS", [i \in 1..len |-> k]) :
                              len \in {4, 5, 16, 18}, k \in {8, 200}} :
        Made("cast",
             fr_value_box_cast(fr_value_box_alloc("FR_TYPE_INVALID"), type, "NULL", src,
                               Zeros(32), TRUE))

NextIp == FromIpaddr \/ FromNetworkIp \/ CastIp

SpecIp == InitIp /\ [][NextIp]_vars
----------------------------------------------------------------------------
\* Claims about casts

UnsignedTypes == {"FR_TYPE_UINT8", "FR_TYPE_UINT16", "FR_TYPE_UINT32", "FR_TYPE_UINT64"}

\* The unsigned integer a box holds, as eight big endian digits
UnsignedValue(x) == ToWidth(Digits(x, fr_value_box_field_sizes(x.type)), 8)

\* C3: a cast of an unsigned integer to a narrower unsigned integer kind fails
\* when the value exceeds the destination kind's maximum, and when it succeeds
\* the destination holds the same number: never wrapped or truncated.
C3_NarrowingCast ==
    (pc = "cast_done" /\ a.type \in UnsignedTypes /\ op \in UnsignedTypes
        /\ fr_value_box_field_sizes(op) < fr_value_box_field_sizes(a.type)) =>
        /\ (\E k \in 1..(8 - fr_value_box_field_sizes(op)) : UnsignedValue(a)[k] # 0) => rc < 0
        /\ rc >= 0 => (dst.type = op /\ UnsignedValue(dst) = UnsignedValue(a))

\* The source kinds a cast to an IP kind is specified for
C11Supported(dst_type) ==
    IpTypes \cup {"FR_TYPE_OCTETS", "FR_TYPE_STRING"}
    \cup (IF dst_type \in {"FR_TYPE_IPV4_ADDR", "FR_TYPE_IPV4_PREFIX"} THEN {"FR_TYPE_UINT32"} ELSE {})

\* C11: a cast to an IP kind from a source kind that is not an address or
\* prefix, octets, a string or (for IPv4) a 32 bit unsigned integer returns an
\* error, never success with a destination of the IP kind.
C11_UnsupportedIpCast ==
    (pc = "cast_done" /\ op \in IpTypes /\ a.type \notin C11Supported(op)) =>
        (rc < 0 /\ dst.type # op)

\* C12: a cast of an IPv4 prefix to an IPv4 or IPv6 address fails unless the
\* prefix length is 32, of an IPv6 prefix unless it is 128; a success is an
\* address with prefix length 32 (IPv4) or 128 (IPv6).
C12_PrefixToAddress ==
    (pc = "cast_done" /\ op \in {"FR_TYPE_IPV4_ADDR", "FR_TYPE_IPV6_ADDR"}
        /\ a.type \in {"FR_TYPE_IPV4_PREFIX", "FR_TYPE_IPV6_PREFIX"}) =>
        /\ a.ip.prefix # (IF a.type = "FR_TYPE_IPV4_PREFIX" THEN 32 ELSE 128) => rc < 0
        /\ rc >= 0 => /\ dst.type = op
                      /\ dst.ip.prefix = IF op = "FR_TYPE_IPV4_ADDR" THEN 32 ELSE 128

\* 192.0.2.1/24 to an IPv4 address fails
C12_Witness ==
    /\ pc = "cast_done" /\ op = "FR_TYPE_IPV4_ADDR" /\ rc = -1
    /\ a.type = "FR_TYPE_IPV4_PREFIX" /\ a.ip.prefix = 24
    /\ SubSeq(a.ip.addr, 1, 4) = <<192, 0, 2, 1>>

\* C13: a successful cast of a tainted source gives a tainted destination,
\* for every pair of source and destination kinds.
C13_TaintKept ==
    (pc = "cast_done" /\ a.tainted /\ rc >= 0) => dst.tainted

\* C21: a cast of a 32 or 64 bit unsigned integer to the 32 bit signed kind
\* fails when the value is greater than 2^31 - 1 (2^32 + 5 among them), and
\* when it succeeds the destination holds the number of the source
C21_UnsignedToSigned ==
    (pc = "cast_done" /\ a.type \in {"FR_TYPE_UINT32", "FR_TYPE_UINT64"} /\ op = "FR_TYPE_INT32")
    => /\ ((\E k \in 1..4 : UnsignedValue(a)[k] # 0) \/ UnsignedValue(a)[5] >= 128) => rc < 0
       /\ rc >= 0 => /\ dst.type = op
                     /\ Digits(dst, 4)[1] < 128
                     /\ ToWidth(Digits(dst, 4), 8) = UnsignedValue(a)

\* C23: an IPv4 prefix cast to octets gives the 5 bytes <prefix><address> and
\* an IPv6 prefix the 18 bytes <scope><prefix><address>, and the cast of these
\* octets back to the prefix kind gives the address, prefix length and scope
\* id of the original
C23_PrefixOctetsRoundTrip ==
    /\ (pc \in {"octets", "back"} /\ rc = 0) =>
          /\ dst.type = "FR_TYPE_OCTETS"
          /\ a.type = "FR_TYPE_IPV4_PREFIX" =>
                dst.length = 5 /\ dst.data = <<a.ip.prefix>> \o SubSeq(a.ip.addr, 1, 4)
          /\ a.type = "FR_TYPE_IPV6_PREFIX" =>
                dst.length = 18 /\ dst.data = <<a.ip.scope_id % 256, a.ip.prefix>> \o a.ip.addr
    /\ pc = "back" =>
          /\ rc2 = 0
          /\ b.type = a.type
          /\ b.ip.addr = a.ip.addr
          /\ b.ip.prefix = a.ip.prefix
          /\ b.ip.scope_id = a.ip.scope_id

\* C28: after any sequence of successful fr_value_box_from_ipaddr,
\* fr_value_box_from_network and cast calls an IPv4 address has prefix length
\* 32, an IPv6 address 128, an IPv4 prefix 0..32 and an IPv6 prefix 0..128, so
\* that fr_value_box_cidr_cmp_op on two such values of a family never reads a
\* byte beyond the address (it does when the prefix lengths differ and the
\* smaller one is not below the number of bits of the address)
C28_PrefixLengthInRange ==
    LET InRange(x) ==
            /\ x.type = "FR_TYPE_IPV4_ADDR" => x.ip.prefix = 32
            /\ x.type = "FR_TYPE_IPV6_ADDR" => x.ip.prefix = 128
            /\ x.type = "FR_TYPE_IPV4_PREFIX" => x.ip.prefix \in 0..32
            /\ x.type = "FR_TYPE_IPV6_PREFIX" => x.ip.prefix \in 0..128
        net(x) == IF x.type = "FR_TYPE_IPV4_ADDR" THEN 32
                  ELSE IF x.type = "FR_TYPE_IPV6_ADDR" THEN 128 ELSE x.ip.prefix
        uint8s == IF a.type \in {"FR_TYPE_IPV4_ADDR", "FR_TYPE_IPV4_PREFIX"} THEN 4 ELSE 16
        common == IF net(a) < net(b) THEN net(a) ELSE net(b)
    IN  /\ InRange(a) /\ InRange(b)
        /\ (SameFamily(a, b) /\ net(a) # net(b)) => common < 8 * uint8s

----------------------------------------------------------------------------
\* Ownership of buffers: clear, copy, shallow copy, steal

\* The chunk talloc hands out next: chunks are never handed out twice, so that
\* a pointer to a freed chunk stays recognisable
Fresh(h) == CHOOSE i \in 1..MaxBufs : /\ h.buf[i].state = "unused"
                                      /\ \A j \in 1..(i - 1) : h.buf[j].state # "unused"

\* talloc_memdup / talloc_bstrndup / talloc_array: a new chunk under ctx
talloc_memdup(h, ctx, bytes) ==
    [h EXCEPT !.buf[Fresh(h)] = [state |-> "live", bytes |-> bytes, parent |-> ctx, refs |-> 0]]

\* talloc_free(p): nothing for NULL; a chunk with references is not freed (a
\* single reference takes over a chunk of the NULL context); freeing a chunk
\* that is not live is undefined
talloc_free(h, p) ==
    IF p = 0 THEN h
    ELSE IF h.buf[p].state # "live" THEN [h EXCEPT !.fault = TRUE]
    ELSE IF h.buf[p].refs = 0 THEN [h EXCEPT !.buf[p].state = "freed"]
    ELSE IF h.buf[p].parent = "NULL" /\ h.buf[p].refs = 1
    THEN [h EXCEPT !.buf[p].parent = "ctx2", !.buf[p].refs = 0]
    ELSE h

\* The bytes read through a pointer; reading a chunk that is not live is
\* undefined
Deref(h, p, len) ==
    IF len = 0 THEN <<>>
    ELSE IF p = 0 \/ h.buf[p].state # "live" THEN <<>>
    ELSE SubSeq(h.buf[p].bytes, 1, len)

BadRead(h, p, len) == len > 0 /\ (p = 0 \/ h.buf[p].state # "live")

\* dict_attr_sizes[type][1]: the largest size of a value of the type
dict_attr_sizes(type) == fr_value_box_network_sizes(type)[2]

\* fr_value_box_clear leaving the type and the freed pointer in the box
fr_value_box_clear_keeps_type(h, data, p) ==
    IF data.type \in VariableTypes
    THEN [box |-> [data EXCEPT !.tainted = FALSE, !.length = 0, !.data = <<>>],
          mem |-> talloc_free(h, p), ptr |-> p]
    ELSE IF data.type \in NonValues THEN [box |-> data, mem |-> h, ptr |-> p]
    ELSE [box |-> [data EXCEPT !.tainted = FALSE], mem |-> h, ptr |-> 0]

\* fr_value_box_clear as [box, mem, ptr]; p is the pointer the box holds
fr_value_box_clear(h, data, p) ==
    LET n == dict_attr_sizes(data.type)
        reset(x) == [x EXCEPT !.tainted = FALSE, !.type = "FR_TYPE_INVALID"]
    IN  IF data.type \in VariableTypes
        THEN [box |-> reset([data EXCEPT !.data = <<>>, !.length = 0]),
              mem |-> talloc_free(h, p), ptr |-> 0]
        ELSE IF data.type \in NonValues THEN [box |-> data, mem |-> h, ptr |-> p]
        ELSE IF data.type \in IpTypes
        THEN [box |-> reset([data EXCEPT !.ip.af = "AF_UNSPEC",
                                         !.ip.addr = memcpy(@, 0, Zeros(16), n - 4)]),
              mem |-> h, ptr |-> 0]
        ELSE [box |-> reset([data EXCEPT !.bytes = memcpy(@, 0, Zeros(32), n)]),
              mem |-> h, ptr |-> 0]

\* copy_buffers handing the pointer of src to dst instead of a copy
copy_buffers_shared(h, ctx, dp, src, sp, alloc_ok) ==
    IF src.type = "FR_TYPE_INVALID" THEN [mem |-> h, ptr |-> dp]
    ELSE IF src.type \in VariableTypes
    THEN IF src.type = "FR_TYPE_OCTETS" /\ src.length = 0 THEN [mem |-> h, ptr |-> 0]
         ELSE IF ~alloc_ok THEN [mem |-> h, ptr |-> dp]
         ELSE [mem |-> h, ptr |-> sp]
    ELSE [mem |-> h, ptr |-> 0]

\* The buffers of fr_value_box_copy as [mem, ptr]; dp and sp are the pointers
\* of dst and src.  A string gets a copy with
\* its terminating NUL, octets a copy unless they are empty; a fixed size
\* member overwrites the pointer of the destination
copy_buffers(h, ctx, dp, src, sp, alloc_ok) ==
    LET bytes == Deref(h, sp, src.length)
        bad == [mem |-> [h EXCEPT !.fault = TRUE], ptr |-> 0]
    IN  IF src.type = "FR_TYPE_INVALID" THEN [mem |-> h, ptr |-> dp]
        ELSE IF src.type = "FR_TYPE_STRING"
        THEN IF ~alloc_ok THEN [mem |-> h, ptr |-> dp]
             ELSE IF BadRead(h, sp, src.length) THEN bad
             ELSE [mem |-> talloc_memdup(h, ctx, bytes \o <<0>>), ptr |-> Fresh(h)]
        ELSE IF src.type = "FR_TYPE_OCTETS"
        THEN IF src.length = 0 THEN [mem |-> h, ptr |-> 0]
             ELSE IF ~alloc_ok THEN [mem |-> h, ptr |-> dp]
             ELSE IF BadRead(h, sp, src.length) THEN bad
             ELSE [mem |-> talloc_memdup(h, ctx, bytes), ptr |-> Fresh(h)]
        ELSE [mem |-> h, ptr |-> 0]

\* fr_value_box_copy_shallow as [rc, dst, mem, ptr]: with a ctx a reference is
\* taken, without one the pointer is shared
fr_value_box_copy_shallow(h, ctx, d, dp, src, sp, alloc_ok) ==
    IF src.type \in VariableTypes
    THEN LET shared == [d EXCEPT !.data = src.data]
             ref == IF sp = 0 \/ ~alloc_ok THEN 0 ELSE sp
         IN  IF ctx = "NULL"
             THEN [rc |-> 0, dst |-> fr_value_box_copy_meta(shared, src), mem |-> h, ptr |-> sp]
             ELSE IF sp # 0 /\ h.buf[sp].state # "live"
             THEN [rc |-> 0, dst |-> d, mem |-> [h EXCEPT !.fault = TRUE], ptr |-> dp]
             ELSE [rc |-> 0, dst |-> fr_value_box_copy_meta(shared, src),
                   mem |-> IF ref = 0 THEN h ELSE [h EXCEPT !.buf[sp].refs = @ + 1],
                   ptr |-> ref]
    ELSE LET c == copy_buffers(h, ctx, dp, src, sp, alloc_ok)
         IN  [rc |-> 0, dst |-> fr_value_box_copy(d, src, alloc_ok).dst, mem |-> c.mem, ptr |-> c.ptr]

\* fr_value_box_steal as [rc, dst, mem, ptr]: the buffer moves to ctx, src
\* keeps its pointer
fr_value_box_steal(h, ctx, d, dp, src, sp) ==
    IF src.type = "FR_TYPE_INVALID" THEN [rc |-> -1, dst |-> d, mem |-> h, ptr |-> dp]
    ELSE IF src.type \in VariableTypes
    THEN IF sp = 0 THEN [rc |-> -1, dst |-> d, mem |-> h, ptr |-> dp]
         ELSE IF h.buf[sp].state # "live"
         THEN [rc |-> -1, dst |-> d, mem |-> [h EXCEPT !.fault = TRUE], ptr |-> dp]
         ELSE [rc |-> 0, dst |-> fr_value_box_copy_meta([d EXCEPT !.data = src.data], src),
               mem |-> [h EXCEPT !.buf[sp].parent = ctx], ptr |-> sp]
    ELSE LET c == copy_buffers(h, ctx, dp, src, sp, TRUE)
             r == fr_value_box_copy(d, src, TRUE)
         IN  [rc |-> r.rc, dst |-> r.dst, mem |-> c.mem, ptr |-> c.ptr]

\* The boxes a run starts with: a string, an empty string, octets, a 32 bit
\* integer, an IPv4 address
MemValues ==
    {VarBox("FR_TYPE_STRING", <<97>>), VarBox("FR_TYPE_STRING", <<>>),
     VarBox("FR_TYPE_OCTETS", <<0, 97>>), VarBox("FR_TYPE_OCTETS", <<>>),
     Raw("FR_TYPE_UINT32", <<1, 2, 3, 4>>), IpBox("FR_TYPE_IPV4_ADDR", <<10, 0, 0, 1>>, 32, 0)}

\* The buffer a box of a run's start owns: a string has one with its NUL,
\* octets have one unless they are empty
StartBytes(x) ==
    IF x.type = "FR_TYPE_STRING" THEN x.data \o <<0>>
    ELSE IF x.type = "FR_TYPE_OCTETS" /\ x.length > 0 THEN x.data ELSE <<>>

\* Bound of the model: the operations of a run
MaxOps == 3

InitMem ==
    /\ le = TRUE
    /\ pc = <<>>
    /\ \E x \in MemValues, t \in BOOLEAN : a = [x EXCEPT !.tainted = t, !.enumv = "ENUM"]
    /\ b = VarBox("FR_TYPE_STRING", <<104, 101, 108, 108, 111>>)
    /\ dst \in {fr_value_box_alloc("FR_TYPE_INVALID"), VarBox("FR_TYPE_STRING", <<111, 108, 100>>),
                UsedBox}
    /\ op = "NULL" /\ wire = <<>> /\ dst_len = 0 /\ need = -1
    /\ rc = 0 /\ rc2 = 0
    /\ text = <<>>
    /\ LET own(i, x) == IF StartBytes(x) = <<>> THEN NoBuf
                        ELSE [state |-> "live", bytes |-> StartBytes(x), parent |-> "ctx", refs |-> 0]
           at(i, x) == IF StartBytes(x) = <<>> THEN 0 ELSE i
       IN  mem = [buf |-> [i \in 1..MaxBufs |-> CASE i = 1 -> own(1, a) [] i = 2 -> own(2, b)
                                                  [] i = 3 -> own(3, dst) [] OTHER -> NoBuf],
                  ptr |-> [a |-> at(1, a), b |-> at(2, b), dst |-> at(3, dst)],
                  fault |-> FALSE]

\* The box and the pointer an operation names
BoxOf(n) == CASE n = "a" -> a [] n = "b" -> b [] OTHER -> dst

\* A run goes on while the operations are defined and chunks are left
MemGoesOn ==
    /\ ~mem.fault
    /\ Len(pc) < MaxOps
    /\ \E i \in 1..MaxBufs : mem.buf[i].state = "unused"

\* fr_value_box_copy(ctx, dst, src) with src one of a, b
MemCopy ==
    /\ MemGoesOn
    /\ \E sn \in {"a", "b"}, alloc_ok \in BOOLEAN :
        LET r == fr_value_box_copy(dst, BoxOf(sn), alloc_ok)
            c == copy_buffers(mem, "ctx", mem.ptr.dst, BoxOf(sn), mem.ptr[sn], alloc_ok)
        IN  /\ dst' = r.dst
            /\ rc' = r.rc
            /\ mem' = [c.mem EXCEPT !.ptr.dst = c.ptr]
            /\ pc' = Append(pc, <<"copy", sn>>)
    /\ UNCHANGED <<text, le, a, b, op, wire, dst_len, need, rc2>>

\* fr_value_box_copy_shallow(ctx, dst, src), with and without a ctx
MemCopyShallow ==
    /\ MemGoesOn
    /\ \E sn \in {"a", "b"}, ctx \in {"NULL", "ctx2"}, alloc_ok \in BOOLEAN :
        LET r == fr_value_box_copy_shallow(mem, ctx, dst, mem.ptr.dst, BoxOf(sn), mem.ptr[sn], alloc_ok)
        IN  /\ dst' = r.dst
            /\ mem' = [r.mem EXCEPT !.ptr.dst = r.ptr]
            /\ pc' = Append(pc, <<"copy_shallow", sn>>)
    /\ UNCHANGED <<text, le, a, b, op, wire, dst_len, need, rc, rc2>>

\* fr_value_box_steal(ctx, dst, src)
MemSteal ==
    /\ MemGoesOn
    /\ \E sn \in {"a", "b"} :
        LET r == fr_value_box_steal(mem, "ctx2", dst, mem.ptr.dst, BoxOf(sn), mem.ptr[sn])
        IN  /\ dst' = r.dst
            /\ rc' = r.rc
            /\ mem' = [r.mem EXCEPT !.ptr.dst = r.ptr]
            /\ pc' = Append(pc, <<"steal", sn>>)
    /\ UNCHANGED <<text, le, a, b, op, wire, dst_len, need, rc2>>

\* fr_value_box_clear(data) with data one of a, b, dst
MemClear ==
    /\ MemGoesOn
    /\ \E n \in {"a", "b", "dst"} :
        LET r == fr_value_box_clear(mem, BoxOf(n), mem.ptr[n])
        IN  /\ a' = IF n = "a" THEN r.box ELSE a
            /\ b' = IF n = "b" THEN r.box ELSE b
            /\ dst' = IF n = "dst" THEN r.box ELSE dst
            /\ mem' = [r.mem EXCEPT !.ptr[n] = r.ptr]
            /\ pc' = Append(pc, <<"clear", n>>)
    /\ UNCHANGED <<text, le, op, wire, dst_len, need, rc, rc2>>

NextMem == MemCopy \/ MemCopyShallow \/ MemSteal \/ MemClear

SpecMem == InitMem /\ [][NextMem]_vars

----------------------------------------------------------------------------
\* Claims about the ownership of buffers

\* The operation a run did last
LastOp == IF pc = <<>> THEN <<"none", "none">> ELSE pc[Len(pc)]

\* dst still holds what a successful fr_value_box_copy of a string or of
\* octets gave it: since that copy only a and b were cleared
HoldsCopy ==
    /\ rc = 0
    /\ dst.type \in VariableTypes
    /\ mem.ptr.dst # 0
    /\ \E k \in 1..Len(pc) :
        /\ pc[k][1] = "copy"
        /\ \A j \in (k + 1)..Len(pc) : pc[j][1] = "clear" /\ pc[j][2] # "dst"

\* C14, right after the copy: dst has the kind, length, tainted flag, enum and
\* payload of src, in a buffer of its own
C14_CopyEqual ==
    \A sn \in {"a", "b"} :
        (/\ LastOp = <<"copy", sn>>
         /\ rc = 0
         /\ ~mem.fault
         /\ BoxOf(sn).type \in VariableTypes)
        => /\ dst.type = BoxOf(sn).type
           /\ dst.length = BoxOf(sn).length
           /\ dst.tainted = BoxOf(sn).tainted
           /\ dst.enumv = BoxOf(sn).enumv
           /\ Deref(mem, mem.ptr.dst, dst.length) = Deref(mem, mem.ptr[sn], BoxOf(sn).length)
           /\ ~BadRead(mem, mem.ptr.dst, dst.length)
           /\ (dst.type = "FR_TYPE_STRING" => mem.ptr.dst # 0)
           /\ (mem.ptr.dst # 0 => mem.ptr.dst # mem.ptr[sn])

\* C14, later: a clear of a or b leaves the buffer of dst allocated and as it
\* was
C14_ClearKeeps ==
    \A sn \in {"a", "b"} :
        (/\ HoldsCopy
         /\ pc' = Append(pc, <<"clear", sn>>)
         /\ ~mem'.fault)
        => /\ mem'.ptr.dst = mem.ptr.dst
           /\ mem'.buf[mem.ptr.dst] = mem.buf[mem.ptr.dst]
           /\ mem'.buf[mem.ptr.dst].state = "live"
           /\ dst' = dst

\* C14: deep copy independence.  After a successful fr_value_box_copy of a
\* string or of octets, dst equals src in kind, length, tainted flag, enum and
\* payload but has a buffer of its own, and clearing the source afterwards
\* leaves that buffer allocated and unchanged
C14_DeepCopy == []C14_CopyEqual /\ [][C14_ClearKeeps]_vars

\* A string was copied from a into dst and a was cleared afterwards
C14_Witness ==
    /\ Len(pc) >= 2
    /\ pc[Len(pc) - 1] = <<"copy", "a">>
    /\ pc[Len(pc)] = <<"clear", "a">>
    /\ rc = 0
    /\ dst.type = "FR_TYPE_STRING" /\ dst.length = 1
    /\ a.type = "FR_TYPE_INVALID"
    /\ mem.ptr.dst # 0
    /\ mem.buf[mem.ptr.dst].state = "live"
    /\ mem.buf[1].state = "freed"

\* The chunks some box points to
Referenced == {mem.ptr[n] : n \in {"a", "b", "dst"}}

\* C15: copy operations clear the destination first.  The buffer dst owned
\* before fr_value_box_copy, fr_value_box_copy_shallow or fr_value_box_steal is
\* released, so no chunk is left allocated with no box pointing to it
C15_DstReleased ==
    \A i \in 1..MaxBufs : mem.buf[i].state = "live" => i \in Referenced

\* The last two operations of a run
LastTwo(first, second) ==
    /\ Len(pc) >= 2
    /\ pc[Len(pc) - 1] = first
    /\ pc[Len(pc)] = second

\* C16: a shared buffer is never freed while referenced.  After a shallow copy
\* of a string or of octets a clear of dst does not free the buffer src points
\* to, and every box of a variable length kind points to allocated memory
C16_SharedKept ==
    /\ \A sn \in {"a", "b"} :
        (/\ LastTwo(<<"copy_shallow", sn>>, <<"clear", "dst">>)
         /\ BoxOf(sn).type \in VariableTypes
         /\ mem.ptr[sn] # 0)
        => mem.buf[mem.ptr[sn]].state = "live"
    /\ \A n \in {"a", "b", "dst"} :
        (BoxOf(n).type \in VariableTypes /\ mem.ptr[n] # 0)
        => mem.buf[mem.ptr[n]].state = "live"

\* C17, after a clear: the kind is invalid, the box is not tainted and holds
\* no buffer
C17_Cleared ==
    \A n \in {"a", "b", "dst"} :
        (LastOp = <<"clear", n>> /\ ~mem.fault)
        => /\ BoxOf(n).type = "FR_TYPE_INVALID"
           /\ ~BoxOf(n).tainted
           /\ mem.ptr[n] = 0

\* C17, the second clear: no box and no chunk changes
C17_SecondClear ==
    \A n \in {"a", "b", "dst"} :
        (LastOp = <<"clear", n>> /\ pc' = Append(pc, <<"clear", n>>))
        => /\ a' = a /\ b' = b /\ dst' = dst
           /\ mem' = mem

\* C17: clear is idempotent.  After fr_value_box_clear the kind is invalid,
\* tainted is false and no buffer is held; a second fr_value_box_clear of the
\* same box changes nothing and frees nothing
C17_ClearIdempotent == []C17_Cleared /\ [][C17_SecondClear]_vars

\* A tainted string was cleared twice, its buffer freed the first time
C17_Witness ==
    /\ LastTwo(<<"clear", "a">>, <<"clear", "a">>)
    /\ a.type = "FR_TYPE_INVALID"
    /\ a.enumv = "ENUM"
    /\ mem.ptr.a = 0
    /\ mem.buf[1].state = "freed"
    /\ ~mem.fault

\* C29: after a successful fr_value_box_steal of a string or of octets at most
\* one of src and dst claims the buffer, and clearing both, in either order,
\* never frees a chunk twice nor leaves a box that was not cleared pointing to
\* freed memory
C29_StealMovesOwnership ==
    \A sn \in {"a", "b"} :
        LET i == IF sn = "a" THEN 1 ELSE 2
        IN  (/\ pc # <<>>
             /\ pc[1] = <<"steal", sn>>
             /\ rc = 0
             /\ mem.buf[i].state # "unused"
             /\ \A j \in 2..Len(pc) : pc[j] \in {<<"clear", sn>>, <<"clear", "dst">>})
            => /\ ~mem.fault
               /\ ~(mem.ptr[sn] = i /\ mem.ptr.dst = i)
               /\ \A n \in {sn, "dst"} :
                    (BoxOf(n).type \in VariableTypes /\ mem.ptr[n] # 0)
                    => mem.buf[mem.ptr[n]].state = "live"

----------------------------------------------------------------------------
\* Unescaping of strings: value_str_unescape

\* hextab with its terminating NUL: memchr searches sizeof(hextab) bytes
hextab == <<48, 49, 50, 51, 52, 53, 54, 55, 56, 57, 97, 98, 99, 100, 101, 102, 0>>

\* memchr(hextab, tolower(c), sizeof(hextab)) - hextab, or -1 for NULL
hextab_index(c) ==
    LET lower == IF c \in 65..90 THEN c + 32 ELSE c
    IN  IF \E i \in 1..Len(hextab) : hextab[i] = lower
        THEN (CHOOSE i \in 1..Len(hextab) : hextab[i] = lower /\ \A j \in 1..(i - 1) : hextab[j] # lower) - 1
        ELSE -1

\* sscanf(p, "%3o", &x) on three decimal digits as [n, x]: the conversion
\* ends at the first character that is no octal digit
sscanf_3o(d0, d1, d2) ==
    LET oct(d) == d \in 48..55
    IN  IF ~oct(d0) THEN [n |-> 0, x |-> 0]
        ELSE IF ~oct(d1) THEN [n |-> 1, x |-> d0 - 48]
        ELSE IF ~oct(d2) THEN [n |-> 1, x |-> (d0 - 48) * 8 + (d1 - 48)]
        ELSE [n |-> 1, x |-> (d0 - 48) * 64 + (d1 - 48) * 8 + (d2 - 48)]

\* The loop of the literal mode (quote '): buf is the memory at in, last the
\* number of bytes of it that belong to the input, p the offset reached
RECURSIVE unescape_literal(_, _, _, _)
unescape_literal(buf, last, p, out) ==
    IF p >= last THEN out
    ELSE IF buf[p + 1] = 92 /\ buf[p + 2] = 39 THEN unescape_literal(buf, last, p + 2, out \o <<39>>)
    ELSE IF buf[p + 1] = 92 /\ buf[p + 2] = 92 THEN unescape_literal(buf, last, p + 2, out \o <<92>>)
    ELSE unescape_literal(buf, last, p + 1, out \o <<buf[p + 1]>>)

\* The loop of the expanded mode (any other quote)
RECURSIVE unescape_expanded(_, _, _, _, _)
unescape_expanded(buf, last, p, out, quote) ==
    IF p >= last THEN out
    ELSE
    LET c == buf[p + 1]
        q == p + 1
        simple == [x \in {114, 110, 116, 92} |->
                      CASE x = 114 -> 13 [] x = 110 -> 10 [] x = 116 -> 9 [] OTHER -> 92]
    IN  IF c # 92 THEN unescape_expanded(buf, last, q, out \o <<c>>, quote)
        ELSE IF q >= last THEN out \o <<c>>
        ELSE IF buf[q + 1] \in DOMAIN simple
        THEN unescape_expanded(buf, last, q + 1, out \o <<simple[buf[q + 1]]>>, quote)
        ELSE IF buf[q + 1] = quote
        THEN unescape_expanded(buf, last, q + 1, out \o <<quote>>, quote)
        ELSE IF q + 2 >= last THEN out \o <<c>> \o SubSeq(buf, q + 1, last)
        ELSE
        LET hex == /\ buf[q + 1] = 120
                   /\ hextab_index(buf[q + 2]) # -1
                   /\ hextab_index(buf[q + 3]) # -1
            c1 == IF hex THEN (hextab_index(buf[q + 2]) * 16 + hextab_index(buf[q + 3])) % 256
                  ELSE c
            p1 == IF hex THEN q + 3 ELSE q
            oct == /\ \A i \in 1..3 : buf[p1 + i] \in 48..57
                   /\ sscanf_3o(buf[p1 + 1], buf[p1 + 2], buf[p1 + 3]).n = 1
            c2 == IF oct THEN sscanf_3o(buf[p1 + 1], buf[p1 + 2], buf[p1 + 3]).x % 256 ELSE c1
            p2 == IF oct THEN p1 + 3 ELSE p1
        IN  unescape_expanded(buf, last, p2, out \o <<c2>>, quote)

\* value_str_unescape: the bytes written to out; their number is returned
value_str_unescape(buf, inlen, quote) ==
    IF quote = 0 THEN SubSeq(buf, 1, inlen)
    ELSE IF quote = 39 THEN unescape_literal(buf, inlen, 0, <<>>)
    ELSE unescape_expanded(buf, inlen, 0, <<>>, quote)

\* Bound of the model: the characters that follow an escape
MaxAfter == 3

\* The inputs: a letter or nothing, one hex or octal escape, and up to
\* MaxAfter digits and letters
HexEscapes == {<<92, 120, h, l>> : h, l \in {49, 52, 97, 70}}

OctEscapes == {<<92, x, y, z>> : x, y, z \in {48, 49, 51, 55}}

AfterEscape == UNION {[1..k -> {49, 50, 51, 57, 122}] : k \in 0..MaxAfter}

\* What the memory past the input holds: NULs or more text
PastInput == {<<0, 0, 0>>, <<49, 50, 51>>}

InitUnescape ==
    /\ le = TRUE
    /\ pc = "unescape"
    /\ \E pre \in {<<>>, <<122>>}, e \in HexEscapes \cup OctEscapes, post \in AfterEscape,
          past \in PastInput :
        /\ wire = pre \o e \o post \o past
        /\ dst_len = Len(pre) + 4 + Len(post)
    /\ op \in {0, 39, 34}
    /\ a = fr_value_box_alloc("FR_TYPE_INVALID") /\ b = a /\ dst = a
    /\ need = -1 /\ rc = 0 /\ rc2 = 0
    /\ mem = NoMem
    /\ text = <<>>

\* len = value_str_unescape(out, in, inlen, quote)
Unescape ==
    /\ pc = "unescape"
    /\ text' = value_str_unescape(wire, dst_len, op)
    /\ rc' = Len(text')
    /\ pc' = "done"
    /\ UNCHANGED <<le, a, b, dst, op, wire, dst_len, need, rc2, mem>>

\* The caller takes the next input
UnescapeBack ==
    /\ pc = "done"
    /\ pc' = "unescape"
    /\ text' = <<>>
    /\ rc' = 0
    /\ UNCHANGED <<le, a, b, dst, op, wire, dst_len, need, rc2, mem>>

NextUnescape == Unescape \/ UnescapeBack

SpecUnescape == InitUnescape /\ [][NextUnescape]_vars

\* C18: expanded mode unescape.  With a quote other than NUL and the single
\* quote a \xHH escape becomes the byte HH and a \OOO escape the byte of that
\* octal value; exactly the characters of the escape are consumed and the
\* characters after it are copied as they are (\xHH followed by three digits
\* gives the byte HH and the three digits)
C18_ExpandedUnescape ==
    LET EscapeAt == CHOOSE k \in 1..dst_len : wire[k] = 92
        e == SubSeq(wire, EscapeAt, EscapeAt + 3)
        hexval(c) == IF c \in 48..57 THEN c - 48 ELSE IF c \in 97..102 THEN c - 87 ELSE c - 55
        EscapeByte == IF e[2] = 120 THEN hexval(e[3]) * 16 + hexval(e[4])
                      ELSE (e[2] - 48) * 64 + (e[3] - 48) * 8 + (e[4] - 48)
    IN  (pc = "done" /\ op \notin {0, 39} /\ EscapeByte <= 255)
        => /\ text = SubSeq(wire, 1, EscapeAt - 1) \o <<EscapeByte>>
                     \o SubSeq(wire, EscapeAt + 4, dst_len)
           /\ rc = dst_len - 3

----------------------------------------------------------------------------
\* Text form of values: fr_value_box_from_str, fr_value_box_asprint

\* fr_bin2hex: two lowercase hex digits for each byte
RECURSIVE fr_bin2hex(_)
fr_bin2hex(bin) ==
    IF bin = <<>> THEN <<>>
    ELSE <<hextab[(bin[1] \div 16) + 1], hextab[(bin[1] % 16) + 1]>> \o fr_bin2hex(Tail(bin))

\* fr_hex2bin: the bytes of the leading pairs of hex digits, at most outlen
RECURSIVE fr_hex2bin(_, _)
fr_hex2bin(hex, outlen) ==
    LET digit(c) == c \in (48..57) \cup (97..102) \cup (65..70)
    IN  IF outlen = 0 \/ Len(hex) < 2 \/ ~digit(hex[1]) \/ ~digit(hex[2]) THEN <<>>
        ELSE <<hextab_index(hex[1]) * 16 + hextab_index(hex[2])>>
             \o fr_hex2bin(SubSeq(hex, 3, Len(hex)), outlen - 1)

\* fr_value_box_from_str without the test for an even number of hex digits
from_str_odd_allowed(d, dst_type, dst_enumv, buf, inlen, quote, tainted) ==
    LET in == SubSeq(buf, 1, inlen)
        finish(x, ret) == [rc |-> 0,
                           dst |-> [x EXCEPT !.length = ret, !.type = dst_type, !.tainted = tainted,
                                             !.enumv = dst_enumv, !.next = "NULL"]]
    IN  IF dst_type = "FR_TYPE_STRING"
        THEN LET s == value_str_unescape(buf, inlen, quote)
             IN  finish([d EXCEPT !.data = s], Len(s))
        ELSE IF inlen < 2 \/ in[1] # 48 \/ in[2] \notin {120, 88}
        THEN finish([d EXCEPT !.data = in], inlen)
        ELSE LET ret == (inlen - 2) \div 2
                 bin == fr_hex2bin(SubSeq(in, 3, inlen), ret)
             IN  IF Len(bin) # ret THEN [rc |-> -1, dst |-> d]
                 ELSE finish([d EXCEPT !.data = bin], ret)

\* fr_value_box_from_str as [rc, dst], for the types FR_TYPE_STRING and
\* FR_TYPE_OCTETS, no dst_enumv and allocations that succeed; buf is the
\* memory at in
fr_value_box_from_str(d, dst_type, dst_enumv, buf, inlen, quote, tainted) ==
    LET in == SubSeq(buf, 1, inlen)
        finish(x, ret) == [rc |-> 0,
                           dst |-> [x EXCEPT !.length = ret, !.type = dst_type, !.tainted = tainted,
                                             !.enumv = dst_enumv, !.next = "NULL"]]
    IN  IF dst_type = "FR_TYPE_STRING"
        THEN LET s == value_str_unescape(buf, inlen, quote)
             IN  finish([d EXCEPT !.data = s], Len(s))
        ELSE IF inlen < 2 \/ in[1] # 48 \/ in[2] \notin {120, 88}
        THEN finish([d EXCEPT !.data = in], inlen)
        ELSE IF (inlen - 2) % 2 # 0 THEN [rc |-> -1, dst |-> d]
        ELSE LET ret == (inlen - 2) \div 2
                 bin == fr_hex2bin(SubSeq(in, 3, inlen), ret)
             IN  IF Len(bin) # ret THEN [rc |-> -1, dst |-> d]
                 ELSE finish([d EXCEPT !.data = bin], ret)

\* Division of a big endian base 256 number by ten as [q, r]
RECURSIVE DivTen(_, _, _, _)
DivTen(d, i, carry, q) ==
    IF i > Len(d) THEN [q |-> q, r |-> carry]
    ELSE DivTen(d, i + 1, (carry * 256 + d[i]) % 10, Append(q, (carry * 256 + d[i]) \div 10))

\* The conversion %u of printf: the decimal digits of a big endian base 256
\* number
RECURSIVE Decimal(_)
Decimal(d) ==
    LET s == DivTen(d, 1, 0, <<>>)
    IN  IF \A i \in 1..Len(s.q) : s.q[i] = 0 THEN <<48 + s.r>>
        ELSE Decimal(s.q) \o <<48 + s.r>>

\* The conversion %d of printf: a minus sign and the magnitude of a negative
\* two's complement number
SignedDecimal(d) ==
    LET w == Len(d)
        inv == [i \in 1..w |-> 255 - d[i]]
        ones(i) == \A j \in (i + 1)..w : inv[j] = 255
        neg == [i \in 1..w |-> IF ones(i) THEN (inv[i] + 1) % 256 ELSE inv[i]]
    IN  IF d[1] >= 128 THEN <<45>> \o Decimal(neg) ELSE Decimal(d)

\* fr_value_box_asprint as [ok, p] for a box without enumv, of one of the types
\* printed here: a string without quote is duplicated, octets are printed as
\* 0x and hex digits, a bool as yes or no, integers with %u, %d and PRIu64, a
\* timeval as seconds, a dot and six digits of microseconds
fr_value_box_asprint(data, quote) ==
    LET w == fr_value_box_field_sizes(data.type)
        hex2(x) == <<hextab[(x \div 16) + 1], hextab[(x % 16) + 1]>>
        usec == Decimal(Digits([bytes |-> SubSeq(data.bytes, 9, 16)], 8))
        made(s) == [ok |-> TRUE, p |-> s]
    IN  IF data.type = "FR_TYPE_INVALID" THEN [ok |-> FALSE, p |-> <<>>]
        ELSE IF data.type = "FR_TYPE_STRING" THEN made(SubSeq(data.data, 1, data.length))
        ELSE IF data.type = "FR_TYPE_OCTETS"
        THEN made(<<48, 120>> \o fr_bin2hex(SubSeq(data.data, 1, data.length)))
        ELSE IF data.type = "FR_TYPE_ETHERNET"
        THEN made(hex2(data.bytes[1]) \o <<58>> \o hex2(data.bytes[2]) \o <<58>>
                  \o hex2(data.bytes[3]) \o <<58>> \o hex2(data.bytes[4]) \o <<58>>
                  \o hex2(data.bytes[5]) \o <<58>> \o hex2(data.bytes[6]))
        ELSE IF data.type = "FR_TYPE_BOOL"
        THEN made(IF data.bytes[1] # 0 THEN <<121, 101, 115>> ELSE <<110, 111>>)
        ELSE IF data.type \in {"FR_TYPE_UINT8", "FR_TYPE_UINT16", "FR_TYPE_UINT32", "FR_TYPE_UINT64",
                               "FR_TYPE_DATE_MILLISECONDS", "FR_TYPE_DATE_MICROSECONDS",
                               "FR_TYPE_DATE_NANOSECONDS", "FR_TYPE_SIZE"}
        THEN made(Decimal(Digits(data, w)))
        ELSE IF data.type \in {"FR_TYPE_INT8", "FR_TYPE_INT16", "FR_TYPE_INT32", "FR_TYPE_INT64"}
        THEN made(SignedDecimal(Digits(data, w)))
        ELSE IF data.type = "FR_TYPE_TIMEVAL"
        THEN made(Decimal(Digits(data, 8)) \o <<46>>
                  \o [i \in 1..(6 - Len(usec)) |-> 48] \o usec)
        ELSE [ok |-> FALSE, p |-> <<>>]

\* Bound of the model: the hex digits (and other characters) after 0x
MaxHex == 4

\* The texts parsed: with and without 0x, hex digits of both cases, a
\* character that is no hex digit, and 0xDEADBEEF
HexTexts ==
    {pre \o s : pre \in {<<>>, <<48, 120>>, <<48, 88>>},
                s \in UNION {[1..k -> {48, 57, 97, 70, 103}] : k \in 0..MaxHex}}
    \cup {<<48, 120, 68, 69, 65, 68, 66, 69, 69, 70>>}

\* The octets printed
OctetsValues ==
    {VarBox("FR_TYPE_OCTETS", s) : s \in UNION {[1..k -> {0, 10, 222, 255}] : k \in 0..MaxLen}}
    \cup {VarBox("FR_TYPE_OCTETS", <<222, 173, 190, 239>>)}

InitStr ==
    /\ le = TRUE
    /\ \/ /\ pc = "parse"
          /\ wire \in HexTexts
          /\ a = fr_value_box_alloc("FR_TYPE_INVALID")
       \/ /\ pc = "print"
          /\ wire = <<>>
          /\ \E x \in OctetsValues, t \in BOOLEAN : a = [x EXCEPT !.tainted = t]
    /\ dst \in PriorBoxes("FR_TYPE_OCTETS")
    /\ op \in {0, 34}
    /\ b = a
    /\ dst_len = Len(wire)
    /\ need = -1 /\ rc = 0 /\ rc2 = 0
    /\ mem = NoMem
    /\ text = <<>>

\* fr_value_box_from_str(ctx, dst, &type, NULL, in, inlen, quote, tainted)
\* with type FR_TYPE_OCTETS
FromStr ==
    /\ pc = "parse"
    /\ \E tainted \in BOOLEAN :
        LET r == fr_value_box_from_str(dst, "FR_TYPE_OCTETS", "NULL", wire, dst_len, op, tainted)
        IN  dst' = r.dst /\ rc' = r.rc
    /\ pc' = "parsed"
    /\ UNCHANGED <<le, a, b, op, wire, dst_len, need, rc2, mem, text>>

\* p = fr_value_box_asprint(ctx, data, quote)
AsPrint ==
    /\ pc = "print"
    /\ text' = fr_value_box_asprint(a, op).p
    /\ rc' = IF fr_value_box_asprint(a, op).ok THEN 0 ELSE -1
    /\ pc' = "printed"
    /\ UNCHANGED <<le, a, b, dst, op, wire, dst_len, need, rc2, mem>>

\* The printed text is parsed again
Reparse ==
    /\ pc = "printed"
    /\ rc = 0
    /\ LET r == fr_value_box_from_str(dst, "FR_TYPE_OCTETS", "NULL", text, Len(text), op, a.tainted)
       IN  dst' = r.dst /\ rc' = r.rc
    /\ pc' = "reparsed"
    /\ UNCHANGED <<le, a, b, op, wire, dst_len, need, rc2, mem, text>>

NextStr == FromStr \/ AsPrint \/ Reparse

SpecStr == InitStr /\ [][NextStr]_vars

\* C19: hex form of octets.  0x and 2k hex digits parse to the k bytes the
\* digits denote, an odd number of digits is an error; octets print as 0x and
\* lowercase hex digits, and the printed text parses back to the same bytes,
\* for every length
C19_HexOctets ==
    LET HexValue(c) == IF c \in 48..57 THEN c - 48 ELSE IF c \in 97..102 THEN c - 87 ELSE c - 55
        HexOnly(s) == \A i \in 1..Len(s) : s[i] \in (48..57) \cup (97..102) \cup (65..70)
        digits == SubSeq(wire, 3, Len(wire))
        k == Len(digits) \div 2
        prefixed == Len(wire) >= 2 /\ wire[1] = 48 /\ wire[2] = 120 /\ HexOnly(digits)
    IN  /\ (pc = "parsed" /\ prefixed /\ Len(digits) % 2 = 0)
           => /\ rc = 0
              /\ dst.type = "FR_TYPE_OCTETS"
              /\ dst.length = k
              /\ dst.data = [i \in 1..k |-> HexValue(digits[2 * i - 1]) * 16 + HexValue(digits[2 * i])]
        /\ (pc = "parsed" /\ prefixed /\ Len(digits) % 2 = 1) => rc = -1
        /\ (pc = "printed")
           => /\ rc = 0
              /\ Len(text) = 2 + 2 * a.length
              /\ text[1] = 48 /\ text[2] = 120
              /\ \A i \in 1..a.length :
                    /\ text[2 * i + 1] \in (48..57) \cup (97..102)
                    /\ text[2 * i + 2] \in (48..57) \cup (97..102)
                    /\ HexValue(text[2 * i + 1]) * 16 + HexValue(text[2 * i + 2]) = a.data[i]
        /\ (pc = "reparsed")
           => /\ rc = 0
              /\ dst.type = "FR_TYPE_OCTETS"
              /\ dst.length = a.length
              /\ dst.data = a.data

\* The four bytes de ad be ef were printed as 0xdeadbeef and parsed back
C19_Witness ==
    /\ pc = "reparsed"
    /\ a.data = <<222, 173, 190, 239>>
    /\ text = <<48, 120, 100, 101, 97, 100, 98, 101, 101, 102>>
    /\ rc = 0
    /\ dst.data = <<222, 173, 190, 239>>

----------------------------------------------------------------------------
\* Bounded printing: fr_value_box_snprint

\* snprintf and strlcpy: as much of s as fits before the NUL; the callers
\* return the length of s
snprintf(out, outlen, s) ==
    LET n == IF Len(s) < outlen THEN Len(s) ELSE outlen - 1
    IN  [i \in 1..Len(out) |-> IF i <= n THEN s[i] ELSE IF i = n + 1 THEN 0 ELSE out[i]]

\* fr_snprint as [ret, out]: the quote character is escaped with a backslash
\* when there is one; the length of the whole text is returned
fr_snprint(out, outlen, in, inlen, quote) ==
    LET esc[i \in 0..inlen] ==
            IF i = 0 THEN <<>>
            ELSE IF quote # 0 /\ in[i] = quote THEN esc[i - 1] \o <<92, quote>>
            ELSE Append(esc[i - 1], in[i])
    IN  [ret |-> Len(esc[inlen]),
         out |-> IF outlen = 0 THEN out ELSE snprintf(out, outlen, esc[inlen])]

\* fr_inet_ntop for an IPv4 address: dotted decimal
fr_inet_ntop(ip) ==
    Decimal(<<ip.addr[1]>>) \o <<46>> \o Decimal(<<ip.addr[2]>>) \o <<46>>
    \o Decimal(<<ip.addr[3]>>) \o <<46>> \o Decimal(<<ip.addr[4]>>)

\* fr_value_box_snprint as [ret, out], for a valid box without enumv of one of
\* the types printed here; out is the memory of the buffer before the call.  A
\* bool is in the group of types that are not printed.
fr_value_box_snprint(out, outlen, data, quote) ==
    IF outlen = 0 THEN [ret |-> data.length, out |-> out]
    ELSE
    LET o1 == [out EXCEPT ![1] = 0]
        printed(s) == [ret |-> Len(s), out |-> snprintf(o1, outlen, s)]
        w == fr_value_box_field_sizes(data.type)
        hex2(x) == <<hextab[(x \div 16) + 1], hextab[(x % 16) + 1]>>
    IN  IF data.type = "FR_TYPE_STRING" THEN
            IF quote # 0 THEN
                IF outlen < 3 THEN [ret |-> data.length + 2, out |-> o1]
                ELSE
                LET freespace == outlen - 1
                    r == fr_snprint(SubSeq(o1, 2, outlen), freespace, data.data, data.length, quote)
                    o3 == <<quote>> \o r.out
                IN  IF r.ret >= freespace - 1
                    THEN [ret |-> r.ret + 2, out |-> [o3 EXCEPT ![outlen - 1] = quote, ![outlen] = 0]]
                    ELSE [ret |-> r.ret + 2, out |-> [o3 EXCEPT ![r.ret + 2] = quote, ![r.ret + 3] = 0]]
            ELSE fr_snprint(o1, outlen, data.data, data.length, quote)
        ELSE IF data.type = "FR_TYPE_OCTETS" THEN
            LET len == data.length * 2 + 2
                freespace == outlen - 2
                max == (IF freespace % 2 = 1 THEN freespace - 1 ELSE freespace - 2) \div 2
                n == IF data.length > max THEN max ELSE data.length
                hex == fr_bin2hex(SubSeq(data.data, 1, n)) \o <<0>>
            IN  IF outlen <= 1 THEN [ret |-> len, out |-> o1]
                ELSE IF outlen = 2 THEN [ret |-> len, out |-> <<48, 0>>]
                ELSE IF freespace <= 2
                THEN [ret |-> len, out |-> [o1 EXCEPT ![1] = 48, ![2] = 120, ![3] = 0]]
                ELSE [ret |-> len,
                      out |-> [i \in 1..outlen |->
                                  IF i = 1 THEN 48 ELSE IF i = 2 THEN 120
                                  ELSE IF i - 2 <= Len(hex) THEN hex[i - 2] ELSE o1[i]]]
        ELSE IF data.type \in {"FR_TYPE_UINT8", "FR_TYPE_UINT16", "FR_TYPE_UINT32", "FR_TYPE_UINT64",
                               "FR_TYPE_DATE_MILLISECONDS", "FR_TYPE_DATE_MICROSECONDS",
                               "FR_TYPE_DATE_NANOSECONDS", "FR_TYPE_SIZE"}
        THEN printed(Decimal(Digits(data, w)))
        ELSE IF data.type \in {"FR_TYPE_INT8", "FR_TYPE_INT16", "FR_TYPE_INT32", "FR_TYPE_INT64"}
        THEN printed(SignedDecimal(Digits(data, w)))
        ELSE IF data.type = "FR_TYPE_TIMEVAL"
        THEN LET usec == Decimal(Digits([bytes |-> SubSeq(data.bytes, 9, 16)], 8))
             IN  printed(Decimal(Digits(data, 8)) \o <<46>>
                         \o [i \in 1..(6 - Len(usec)) |-> 48] \o usec)
        ELSE IF data.type = "FR_TYPE_ETHERNET"
        THEN printed(hex2(data.bytes[1]) \o <<58>> \o hex2(data.bytes[2]) \o <<58>>
                     \o hex2(data.bytes[3]) \o <<58>> \o hex2(data.bytes[4]) \o <<58>>
                     \o hex2(data.bytes[5]) \o <<58>> \o hex2(data.bytes[6]))
        ELSE IF data.type = "FR_TYPE_IPV4_ADDR"
        THEN printed(fr_inet_ntop(data.ip))
        ELSE [ret |-> 0, out |-> o1]

\* Bound of the model: the largest output buffer of a bounded print
MaxOutLen == 12

\* The boxes printed: strings with and without the quote character, octets,
\* integers, ethernet addresses, bools and IPv4 addresses, with the length
\* fr_value_box_from_str gives them
PrintValues ==
    {VarBox("FR_TYPE_STRING", s) : s \in UNION {[1..k -> {97, 34}] : k \in 0..MaxLen}}
    \cup {VarBox("FR_TYPE_OCTETS", s) : s \in UNION {[1..k -> {0, 222}] : k \in 0..MaxLen}}
    \cup {[x EXCEPT !.length = fr_value_box_field_sizes(x.type)] :
             x \in {y \in NumericValues \cup RawValues :
                       y.type \in {"FR_TYPE_UINT8", "FR_TYPE_UINT16", "FR_TYPE_UINT32",
                                    "FR_TYPE_INT8", "FR_TYPE_INT16", "FR_TYPE_INT32",
                                    "FR_TYPE_ETHERNET", "FR_TYPE_BOOL",
                                    "FR_TYPE_UINT64", "FR_TYPE_INT64", "FR_TYPE_SIZE",
                                    "FR_TYPE_DATE_MILLISECONDS", "FR_TYPE_DATE_MICROSECONDS",
                                    "FR_TYPE_DATE_NANOSECONDS"}}}
    \cup {IpBox("FR_TYPE_IPV4_ADDR", v, 32, 0) : v \in V4Addrs}
    \cup {[Scalar("FR_TYPE_TIMEVAL", sec \o usec) EXCEPT
                !.bytes = IF le THEN Reverse(sec) \o Reverse(usec) \o Zeros(16)
                          ELSE sec \o usec \o Zeros(16),
                !.length = 16] :
             sec \in {ToWidth(<<0>>, 8), ToWidth(<<1, 44>>, 8)},
             usec \in {ToWidth(<<0>>, 8), ToWidth(<<5>>, 8), ToWidth(<<15, 66, 63>>, 8)}}

InitPrint ==
    /\ le \in BOOLEAN
    /\ pc = "snprint"
    /\ a \in PrintValues
    /\ b = a
    /\ dst = a
    /\ op \in {0, 34}
    /\ wire = <<>>
    /\ dst_len \in 0..MaxOutLen \cup {24}
    /\ need = -1 /\ rc = 0 /\ rc2 = 0
    /\ mem = NoMem
    /\ text = [i \in 1..dst_len |-> 165]

\* len = fr_value_box_snprint(out, outlen, data, quote)
Snprint ==
    /\ pc = "snprint"
    /\ LET r == fr_value_box_snprint(text, dst_len, a, op)
       IN  text' = r.out /\ rc' = r.ret
    /\ pc' = "snprinted"
    /\ UNCHANGED <<le, a, b, dst, op, wire, dst_len, need, rc2, mem>>

\* p = fr_value_box_asprint(ctx, data, quote) for the box just printed
AsprintSame ==
    /\ pc = "snprinted"
    /\ LET r == fr_value_box_asprint(a, op)
       IN  wire' = r.p /\ rc2' = IF r.ok THEN 0 ELSE -1
    /\ pc' = "asprinted"
    /\ UNCHANGED <<le, a, b, dst, op, text, dst_len, need, rc, mem>>

NextPrint == Snprint \/ AsprintSame

SpecPrint == InitPrint /\ [][NextPrint]_vars

\* C20: the bounded print reports the untruncated length.  For every buffer
\* size, 0, 1 and 2 among them, fr_value_box_snprint returns the length of the
\* full text, so the result is >= outlen exactly when the text was truncated,
\* and with outlen > 0 the buffer holds a NUL in its first outlen bytes
C20_FullLength ==
    LET upto(s) == IF \E i \in 1..Len(s) : s[i] = 0
                   THEN SubSeq(s, 1, (CHOOSE i \in 1..Len(s) :
                                         s[i] = 0 /\ \A j \in 1..(i - 1) : s[j] # 0) - 1)
                   ELSE s
        full == upto(fr_value_box_snprint([i \in 1..40 |-> 165], 40, a, op).out)
        truncated == dst_len = 0 \/ upto(text) # full
    IN  pc = "snprinted"
        => /\ rc = Len(full)
           /\ (rc >= dst_len) <=> truncated
           /\ dst_len > 0 => \E i \in 1..dst_len : text[i] = 0

\* C30: the two printers agree.  For a bool, an integer, a date with
\* subsecond resolution, an ethernet address, octets, a size or a timeval with
\* no enum alias and no quote, fr_value_box_snprint into a buffer that is
\* large enough for the text writes the text fr_value_box_asprint gives and
\* returns its length
C30_PrintersAgree ==
    (pc = "asprinted" /\ op = 0 /\ a.type \notin {"FR_TYPE_STRING", "FR_TYPE_IPV4_ADDR"}
        /\ rc2 = 0 /\ dst_len > Len(wire))
    => /\ rc = Len(wire)
       /\ SubSeq(text, 1, Len(wire) + 1) = wire \o <<0>>

====
